---- MODULE Spec2Model ----
(***************************************************************************)
(* The Java -> pseudocode conversion pipeline of csconv/src/lib:           *)
(*   convert = input check, normalize, scopeGuard, tokenize, parse,        *)
(*             generatePseudocode.                                         *)
(* Source text is a TLA+ string; a character is a string of length 1.      *)
(***************************************************************************)
EXTENDS Integers, Sequences, FiniteSets, TLC

VARIABLES
  pc,          \* pc[c]: the statement of convert that call c executes next
  source,      \* source[c]: the javaSource argument of call c
  style,       \* style[c]: options.style of call c ("" when none is given)
  normalized,  \* normalized[c]: convert's local `normalized`
  tokens,      \* tokens[c]: convert's local `tokenResult`
  ast,         \* ast[c]: convert's local `ast`
  trace,       \* trace[c]: the stages call c has invoked, in order
  outcome      \* outcome[c]: what call c returned or threw

vars == <<pc, source, style, normalized, tokens, ast, trace, outcome>>

(***************************************************************************)
(* Characters                                                              *)
(***************************************************************************)
CharAt(s, i) == IF i >= 1 /\ i <= Len(s) THEN SubSeq(s, i, i) ELSE ""

Slice(s, i, j) ==
  LET hi == IF j > Len(s) THEN Len(s) ELSE j
  IN IF i < 1 \/ i > hi THEN "" ELSE SubSeq(s, i, hi)

LowerChars == {"a", "b", "c", "d", "e", "f", "g", "h", "i", "j", "k", "l", "m",
               "n", "o", "p", "q", "r", "s", "t", "u", "v", "w", "x", "y", "z"}

UpperChars == {"A", "B", "C", "D", "E", "F", "G", "H", "I", "J", "K", "L", "M",
               "N", "O", "P", "Q", "R", "S", "T", "U", "V", "W", "X", "Y", "Z"}

DigitChars == {"0", "1", "2", "3", "4", "5", "6", "7", "8", "9"}

\* /[A-Za-z_]/
IsIdentStart(ch) == ch \in LowerChars \cup UpperChars \cup {"_"}

\* /[A-Za-z0-9_]/, which is also the regular expression class \w
IsWordChar(ch) == ch \in LowerChars \cup UpperChars \cup DigitChars \cup {"_"}

\* the regular expression class \s, over the characters a source can hold here
IsSpaceChar(ch) == ch \in {" ", "\n", "\t", "\r", "\f"}

\* a variant of IsBlank without the trim: only the empty string is blank
IsBlank_NoTrim(s) == s = ""

\* String.prototype.trim() leaves nothing: every character is white space
IsBlank(s) == \A i \in 1..Len(s) : IsSpaceChar(CharAt(s, i))

(***************************************************************************)
(* errors.ts                                                               *)
(***************************************************************************)
err(stage, message, line, column) ==
  [stage |-> stage, message |-> message, line |-> line, column |-> column]

(***************************************************************************)
(* normalize.ts                                                            *)
(***************************************************************************)
\* One pass of a loop `while (i < text.length)` over the indices lo..hi:
\* NormalizeStep / LineEndingStep / TokenizeStep is the loop body, run at the
\* index the loop stands on (st.i) and skipped at the indices the body has
\* already consumed (the loop index never falls behind: st.i > mid after
\* the indices lo..mid).  Splitting the range in halves keeps the evaluation shallow.
RECURSIVE LineEndingFold(_, _, _, _)
RECURSIVE NormalizeFold(_, _, _, _)

\* source.replace(/\r\n?/g, "\n").replace(/\t/g, "  "), at index i
LineEndingStep(s, i, st) ==
  IF i # st.i THEN st
  ELSE LET ch == CharAt(s, i)
       IN IF ch = "\r"
          THEN [i |-> IF CharAt(s, i + 1) = "\n" THEN i + 2 ELSE i + 1, out |-> st.out \o "\n"]
          ELSE IF ch = "\t" THEN [i |-> i + 1, out |-> st.out \o "  "]
          ELSE [i |-> i + 1, out |-> st.out \o ch]

LineEndingFold(s, lo, hi, st) ==
  IF lo > hi THEN st
  ELSE IF lo = hi THEN LineEndingStep(s, lo, st)
  ELSE LET mid == (lo + hi) \div 2
           left == LineEndingFold(s, lo, mid, st)
       IN IF left.i > mid THEN LineEndingFold(s, mid + 1, hi, left) ELSE left

ReplaceLineEndings(s) == LineEndingFold(s, 1, Len(s), [i |-> 1, out |-> ""]).out

\* a variant of BlankOf that keeps no line break
BlankOf_Space(ch) == " "

\* text[i] === "\n" ? "\n" : " ": what stands for a character of a block comment
BlankOf(ch) == IF ch = "\n" THEN "\n" ELSE " "

\* the body of normalize's while loop at index i; mode is "code", "string",
\* "line" (the inner loop of a line comment) or "block" (of a block comment)
NormalizeStep(text, i, st) ==
  IF i # st.i THEN st
  ELSE LET ch == CharAt(text, i)
           next == CharAt(text, i + 1)
       IN CASE st.mode = "string" ->
                 IF ch = "\\" /\ i + 1 <= Len(text)
                 THEN [st EXCEPT !.i = i + 2, !.out = st.out \o ch \o next]
                 ELSE IF ch = st.quote
                      THEN [st EXCEPT !.i = i + 1, !.out = st.out \o ch, !.mode = "code", !.quote = ""]
                      ELSE [st EXCEPT !.i = i + 1, !.out = st.out \o ch]
            [] st.mode = "line" ->
                 IF ch = "\n"
                 THEN [st EXCEPT !.i = i + 1, !.out = st.out \o ch, !.mode = "code"]
                 ELSE [st EXCEPT !.i = i + 1, !.out = st.out \o " "]
            [] st.mode = "block" ->
                 IF ch = "*" /\ next = "/"
                 THEN [st EXCEPT !.i = i + 2, !.out = st.out \o "  ", !.mode = "code"]
                 ELSE [st EXCEPT !.i = i + 1, !.out = st.out \o BlankOf(ch)]
            [] OTHER ->
                 IF ch = "\"" \/ ch = "'"
                 THEN [st EXCEPT !.i = i + 1, !.out = st.out \o ch, !.mode = "string", !.quote = ch]
                 ELSE IF ch = "/" /\ next = "/"
                      THEN [st EXCEPT !.i = i + 2, !.out = st.out \o "  ", !.mode = "line"]
                      ELSE IF ch = "/" /\ next = "*"
                           THEN [st EXCEPT !.i = i + 2, !.out = st.out \o "  ", !.mode = "block"]
                           ELSE [st EXCEPT !.i = i + 1, !.out = st.out \o ch]

NormalizeFold(text, lo, hi, st) ==
  IF lo > hi THEN st
  ELSE IF lo = hi THEN NormalizeStep(text, lo, st)
  ELSE LET mid == (lo + hi) \div 2
           left == NormalizeFold(text, lo, mid, st)
       IN IF left.i > mid THEN NormalizeFold(text, mid + 1, hi, left) ELSE left

normalize(src) ==
  LET text == ReplaceLineEndings(src)
  IN NormalizeFold(text, 1, Len(text), [i |-> 1, out |-> "", mode |-> "code", quote |-> ""]).out

(***************************************************************************)
(* scope-guard.ts                                                          *)
(***************************************************************************)
\* \bw\b matches at index i (w is made of word characters)
WordAt(s, i, w) ==
  /\ Slice(s, i, i + Len(w) - 1) = w
  /\ ~IsWordChar(CharAt(s, i - 1))
  /\ ~IsWordChar(CharAt(s, i + Len(w)))

\* /\bw\b/.test(s)
HasWord(s, w) == \E i \in 1..Len(s) : WordAt(s, i, w)

\* /\bgeneric\s*</.test(s)
HasGenericAngle(s) ==
  \E i \in 1..Len(s) :
    /\ Slice(s, i, i + 6) = "generic"
    /\ ~IsWordChar(CharAt(s, i - 1))
    /\ \E j \in (i + 7)..Len(s) :
         /\ CharAt(s, j) = "<"
         /\ \A k \in (i + 7)..(j - 1) : IsSpaceChar(CharAt(s, k))

\* /\bclass\b.*\bclass\b/.test(s): "." matches no line terminator
HasTwoClasses(s) ==
  \E i \in 1..Len(s) : \E j \in (i + 5)..Len(s) :
    /\ WordAt(s, i, "class")
    /\ WordAt(s, j, "class")
    /\ \A k \in (i + 5)..(j - 1) : CharAt(s, k) \notin {"\n", "\r"}

\* the list `banned`, in order
BannedRules ==
  << [kind |-> "word", word |-> "interface", why |-> "Interfaces are out of scope."],
     [kind |-> "word", word |-> "implements", why |-> "Interfaces are out of scope."],
     [kind |-> "word", word |-> "extends", why |-> "Inheritance is out of scope."],
     [kind |-> "word", word |-> "throws", why |-> "Exceptions are out of scope."],
     [kind |-> "word", word |-> "try", why |-> "Exceptions are out of scope."],
     [kind |-> "word", word |-> "catch", why |-> "Exceptions are out of scope."],
     [kind |-> "word", word |-> "switch", why |-> "Switch is out of scope."],
     [kind |-> "generic", word |-> "generic", why |-> "Generics are out of scope."],
     [kind |-> "classes", word |-> "class", why |-> "Multiple classes are out of scope."] >>

\* rule.re.test(source)
RuleMatches(rule, s) ==
  CASE rule.kind = "word" -> HasWord(s, rule.word)
    [] rule.kind = "generic" -> HasGenericAngle(s)
    [] OTHER -> HasTwoClasses(s)

NoError == [stage |-> "none", message |-> "", line |-> 0, column |-> 0]

\* a variant of scopeGuard in which the last rule that matches decides
scopeGuard_LastMatch(s) ==
  LET hits == {r \in 1..Len(BannedRules) : RuleMatches(BannedRules[r], s)}
  IN IF hits = {} THEN NoError
     ELSE LET last == CHOOSE r \in hits : \A q \in hits : r >= q
          IN err("scope", BannedRules[last].why, 1, 1)

\* the first rule that matches decides; null (NoError) when none does
scopeGuard(s) ==
  LET hits == {r \in 1..Len(BannedRules) : RuleMatches(BannedRules[r], s)}
  IN IF hits = {} THEN NoError
     ELSE LET first == CHOOSE r \in hits : \A q \in hits : r <= q
          IN err("scope", BannedRules[first].why, 1, 1)

(***************************************************************************)
(* tokenize.ts                                                             *)
(***************************************************************************)
KEYWORDS == {"if", "else", "while", "for", "do", "int", "double", "float",
             "boolean", "char", "String", "void", "public", "static", "class",
             "return", "true", "false", "new"}

twoOps == {"==", "!=", "<=", ">=", "&&", "||", "++", "--", "+=", "-=", "*=", "/="}

\* singleMap[ch], "" when ch is no key of it
singleMap(ch) ==
  CASE ch \in {"+", "-", "*", "/", "%", "<", ">", "=", "!"} -> "operator"
    [] ch \in {"(", ")"} -> "paren"
    [] ch \in {"{", "}"} -> "brace"
    [] ch \in {"[", "]"} -> "bracket"
    [] ch = "." -> "dot"
    [] ch = ";" -> "semicolon"
    [] ch = "," -> "comma"
    [] OTHER -> ""

Token(type, value, line, col) == [type |-> type, value |-> value, line |-> line, col |-> col]

RECURSIVE WordEnd(_, _)
\* while (i < source.length && /[A-Za-z0-9_]/.test(source[i])) i += 1
WordEnd(src, i) == IF i <= Len(src) /\ IsWordChar(CharAt(src, i)) THEN WordEnd(src, i + 1) ELSE i

RECURSIVE DigitsEnd(_, _)
\* while (i < source.length && /[0-9]/.test(source[i])) i += 1
DigitsEnd(src, i) == IF i <= Len(src) /\ CharAt(src, i) \in DigitChars THEN DigitsEnd(src, i + 1) ELSE i

\* the end of a number: a digit run, then an optional "." and digit run
NumberEnd(src, i) ==
  LET j == DigitsEnd(src, i)
  IN IF CharAt(src, j) = "." THEN DigitsEnd(src, j + 1) ELSE j

RECURSIVE StringScan(_, _, _, _, _)
\* the inner while loop of the string branch, entered after the opening quote
StringScan(src, i, col, quote, strVal) ==
  IF i > Len(src) THEN [closed |-> FALSE, i |-> i, col |-> col, strVal |-> strVal]
  ELSE LET c == CharAt(src, i)
       IN IF c = "\\"
          THEN StringScan(src, i + 2, col + 2, quote, strVal \o c \o CharAt(src, i + 1))
          ELSE IF c = quote
               THEN [closed |-> TRUE, i |-> i + 1, col |-> col + 1, strVal |-> strVal]
               ELSE IF c = "\n"
                    THEN [closed |-> FALSE, i |-> i, col |-> col, strVal |-> strVal]
                    ELSE StringScan(src, i + 1, col + 1, quote, strVal \o c)

RECURSIVE TokenizeFold(_, _, _, _)
\* the body of tokenize's while loop at index i; st.done: tokenize has returned
TokenizeStep(src, i, st) ==
  IF i # st.i \/ st.done THEN st
  ELSE LET ch == CharAt(src, i)
           line == st.line
           col == st.col
       IN CASE ch \in {" ", "\r", "\f"} -> [st EXCEPT !.i = i + 1, !.col = col + 1]
            [] ch = "\n" -> [st EXCEPT !.i = i + 1, !.line = line + 1, !.col = 1]
            [] IsIdentStart(ch) ->
                 LET j == WordEnd(src, i)
                     value == Slice(src, i, j - 1)
                     type == IF value \in KEYWORDS THEN "keyword" ELSE "identifier"
                 IN [st EXCEPT !.i = j, !.col = col + (j - i),
                               !.tokens = Append(st.tokens, Token(type, value, line, col))]
            [] ch \in DigitChars ->
                 LET j == NumberEnd(src, i)
                 IN [st EXCEPT !.i = j, !.col = col + (j - i),
                               !.tokens = Append(st.tokens, Token("number", Slice(src, i, j - 1), line, col))]
            [] ch = "\"" \/ ch = "'" ->
                 LET r == StringScan(src, i + 1, col + 1, ch, "")
                 IN IF ~r.closed
                    THEN [st EXCEPT !.done = TRUE, !.tokens = <<>>,
                                    !.error = err("tokenization", "Unterminated string literal", line, r.col)]
                    ELSE [st EXCEPT !.i = r.i, !.col = r.col,
                                    !.tokens = Append(st.tokens, Token("string", r.strVal, line, r.col))]
            [] Slice(src, i, i + 1) \in twoOps ->
                 [st EXCEPT !.i = i + 2, !.col = col + 2,
                            !.tokens = Append(st.tokens, Token("operator", Slice(src, i, i + 1), line, col))]
            [] singleMap(ch) # "" ->
                 [st EXCEPT !.i = i + 1, !.col = col + 1,
                            !.tokens = Append(st.tokens, Token(singleMap(ch), ch, line, col))]
            [] OTHER ->
                 [st EXCEPT !.done = TRUE, !.tokens = <<>>,
                            !.error = err("tokenization", "Unsupported character '" \o ch \o "'", line, col)]

TokenizeFold(src, lo, hi, st) ==
  IF lo > hi THEN st
  ELSE IF lo = hi THEN TokenizeStep(src, lo, st)
  ELSE LET mid == (lo + hi) \div 2
           left == TokenizeFold(src, lo, mid, st)
       IN IF left.i > mid THEN TokenizeFold(src, mid + 1, hi, left) ELSE left

\* the loop, then tokens.push({ type: "eof", value: "", line, col })
tokenize(src) ==
  LET st == TokenizeFold(src, 1, Len(src),
                         [i |-> 1, line |-> 1, col |-> 1, tokens |-> <<>>, done |-> FALSE,
                          error |-> NoError])
  IN IF st.done THEN [tokens |-> <<>>, error |-> st.error]
     ELSE [tokens |-> Append(st.tokens, Token("eof", "", st.line, st.col)), error |-> NoError]

(***************************************************************************)
(* parser.ts: AST nodes.  Every node is a record of one shape; `sub` holds *)
(* the node's target / object / child field when it has one.               *)
(***************************************************************************)
Node(type, name, op, value, dataType, sub, children) ==
  [type |-> type, name |-> name, op |-> op, value |-> value, dataType |-> dataType,
   sub |-> sub, children |-> children]

\* null (an absent init, test or update of a For; an unsized array dimension)
NullNode == Node("Null", "", "", "", "", <<>>, <<>>)

\* undefined (the `ast` field of a parse result that holds an error)
Undefined == Node("Undefined", "", "", "", "", <<>>, <<>>)

Identifier(name) == Node("Identifier", name, "", "", "", <<>>, <<>>)
Literal(value) == Node("Literal", "", "", value, "", <<>>, <<>>)
Binary(op, left, right) == Node("Binary", "", op, "", "", <<>>, <<left, right>>)
Unary(op, operand) == Node("Unary", "", op, "", "", <<>>, <<operand>>)

ASSIGNMENT_OPS == {"=", "+=", "-=", "*=", "/=", "%="}

UPDATE_OPS == {"++", "--"}

\* stands for an argument that is left undefined
AnyValue == "<undefined>"

\* this.tokens[i], with 1 as the first index; undefined is a token of type "undefined"
TokenAt(t, i) == IF i >= 1 /\ i <= Len(t) THEN t[i] ELSE Token("undefined", "", 0, 0)

\* the test of Parser.match: the current token has this type and value
Matches(t, p, type, value) ==
  /\ p <= Len(t)
  /\ t[p].type = type
  /\ (value = AnyValue \/ t[p].value = value)

Ok(node, p) == [ok |-> TRUE, node |-> node, nodes |-> <<>>, pos |-> p, error |-> NoError]

OkList(nodes, p) == [ok |-> TRUE, node |-> NullNode, nodes |-> nodes, pos |-> p, error |-> NoError]

\* throw err("parse", message, tok.line, tok.col), with this.pos = p when it is thrown
Throw(message, tok, p) ==
  [ok |-> FALSE, node |-> NullNode, nodes |-> <<>>, pos |-> p,
   error |-> err("parse", message, tok.line, tok.col)]

\* Parser.expect: the token is consumed, or a parse error at the current token
expect(t, p, type, value, message) ==
  IF Matches(t, p, type, value) THEN Ok(NullNode, p + 1) ELSE Throw(message, TokenAt(t, p), p)

\* `${tok.value || tok.type}`
ValueOrType(tok) == IF tok.value # "" THEN tok.value ELSE tok.type

RECURSIVE JsonEscape(_, _)
\* the escapes JSON.stringify applies inside the quotes
JsonEscape(s, i) ==
  IF i > Len(s) THEN ""
  ELSE LET ch == CharAt(s, i)
           out == CASE ch = "\"" -> "\\\""
                    [] ch = "\\" -> "\\\\"
                    [] ch = "\n" -> "\\n"
                    [] ch = "\r" -> "\\r"
                    [] ch = "\t" -> "\\t"
                    [] ch = "\f" -> "\\f"
                    [] OTHER -> ch
       IN out \o JsonEscape(s, i + 1)

\* JSON.stringify(value) of a string
JsonStringify(s) == "\"" \o JsonEscape(s, 1) \o "\""

RECURSIVE emitBaseName(_)
emitBaseName(node) ==
  CASE node.type = "Identifier" -> node.name
    [] node.type = "ArrayAccess" -> node.name
    [] node.type = "MethodCall" -> emitBaseName(node.sub[1])
    [] node.type = "Property" -> emitBaseName(node.sub[1]) \o "." \o node.name
    [] OTHER -> "?"

\* the operators one precedence level consumes: parseOr (1) .. parseMultiplicative (6)
LevelOps(level) ==
  CASE level = 1 -> {"||"}
    [] level = 2 -> {"&&"}
    [] level = 3 -> {"==", "!="}
    [] level = 4 -> {"<", ">", "<=", ">="}
    [] level = 5 -> {"+", "-"}
    [] OTHER -> {"*", "/", "%"}

\* the rest of a parsing method after a step of it: `next` when the step
\* returned, the thrown error when it threw
Then(step, next(_)) == IF step.ok THEN next(step) ELSE step

RECURSIVE parseExpression(_, _)
RECURSIVE parseAssignmentExpression(_, _)
RECURSIVE parseBinaryLevel(_, _, _)
RECURSIVE parseBinaryRest(_, _, _, _)
RECURSIVE parseUnary(_, _)
RECURSIVE parsePrimary(_, _)
RECURSIVE parsePostfix(_, _, _)
RECURSIVE parseArguments(_, _)
RECURSIVE parseExpressionList(_, _, _)
RECURSIVE parseIndices(_, _, _)
RECURSIVE parseArrayCreation(_, _)
RECURSIVE parseDimensions(_, _, _)

parseExpression(t, p) == parseAssignmentExpression(t, p)

\* a variant of parseAssignmentExpression without the test of the target
parseAssignmentExpression_AnyTarget(t, p) ==
  Then(parseBinaryLevel(t, p, 1), LAMBDA left :
    LET opTok == TokenAt(t, left.pos)
    IN IF opTok.type = "operator" /\ opTok.value \in ASSIGNMENT_OPS
       THEN Then(parseAssignmentExpression(t, left.pos + 1), LAMBDA right :
              Ok(Node("AssignmentExpr", "", opTok.value, "", "",
                      <<left.node>>, <<right.node>>), right.pos))
       ELSE left)

parseAssignmentExpression(t, p) ==
  Then(parseBinaryLevel(t, p, 1), LAMBDA left :
    LET opTok == TokenAt(t, left.pos)
    IN IF opTok.type = "operator" /\ opTok.value \in ASSIGNMENT_OPS
       THEN Then(parseAssignmentExpression(t, left.pos + 1), LAMBDA right :
              IF left.node.type \notin {"Identifier", "ArrayAccess"}
              THEN Throw("Invalid assignment target", opTok, right.pos)
              ELSE Ok(Node("AssignmentExpr", "", opTok.value, "", "",
                           <<left.node>>, <<right.node>>), right.pos))
       ELSE left)

\* the operand of a level: parseUnary below parseMultiplicative (6), the
\* next level otherwise
parseOperand(t, p, level) ==
  IF level = 6 THEN parseUnary(t, p) ELSE parseBinaryLevel(t, p, level + 1)

\* parseOr, parseAnd, parseEquality, parseRelational, parseAdditive and
\* parseMultiplicative: one operand of the next level, then the while loop
parseBinaryLevel(t, p, level) ==
  Then(parseOperand(t, p, level), LAMBDA first :
    parseBinaryRest(t, first.pos, level, first.node))

parseBinaryRest(t, p, level, expr) ==
  IF Matches(t, p, "operator", AnyValue) /\ t[p].value \in LevelOps(level)
  THEN Then(parseOperand(t, p + 1, level), LAMBDA right :
         parseBinaryRest(t, right.pos, level, Binary(t[p].value, expr, right.node)))
  ELSE Ok(expr, p)

parseOr(t, p) == parseBinaryLevel(t, p, 1)

parseUnary(t, p) ==
  IF Matches(t, p, "operator", "!") \/ Matches(t, p, "operator", "-")
  THEN Then(parseUnary(t, p + 1), LAMBDA right :
         Ok(Unary(t[p].value, right.node), right.pos))
  ELSE parsePrimary(t, p)

parsePrimary(t, p) ==
  LET tok == TokenAt(t, p)
  IN CASE Matches(t, p, "keyword", "new") -> parseArrayCreation(t, p + 1)
       [] Matches(t, p, "number", AnyValue) -> Ok(Literal(tok.value), p + 1)
       [] Matches(t, p, "string", AnyValue) -> Ok(Literal(JsonStringify(tok.value)), p + 1)
       [] Matches(t, p, "keyword", "true") \/ Matches(t, p, "keyword", "false") ->
            Ok(Literal(tok.value), p + 1)
       [] Matches(t, p, "identifier", AnyValue) -> parsePostfix(t, p + 1, Identifier(tok.value))
       [] Matches(t, p, "paren", "(") ->
            Then(parseExpression(t, p + 1), LAMBDA expr :
              Then(expect(t, expr.pos, "paren", ")", "Expected ')' after expression"),
                   LAMBDA close : Ok(expr.node, close.pos)))
       [] OTHER -> Throw("Unexpected token '" \o ValueOrType(tok) \o "'", tok, p)

\* parseExpression, then while (this.match("comma", ",")) parseExpression
parseExpressionList(t, p, acc) ==
  Then(parseExpression(t, p), LAMBDA e :
    IF Matches(t, e.pos, "comma", ",")
    THEN parseExpressionList(t, e.pos + 1, Append(acc, e.node))
    ELSE OkList(Append(acc, e.node), e.pos))

\* the argument list of a call, entered after its "("
parseArguments(t, p) ==
  IF Matches(t, p, "paren", ")") THEN OkList(<<>>, p + 1)
  ELSE Then(parseExpressionList(t, p, <<>>), LAMBDA args :
         Then(expect(t, args.pos, "paren", ")", "Expected ')' after arguments"),
              LAMBDA close : OkList(args.nodes, close.pos)))

\* indexExpr "]" { "[" nextIndex "]" }, entered after the first "["
parseIndices(t, p, acc) ==
  Then(parseExpression(t, p), LAMBDA e :
    Then(expect(t, e.pos, "bracket", "]", "Expected ']' in array access"), LAMBDA close :
      IF Matches(t, close.pos, "bracket", "[")
      THEN parseIndices(t, close.pos + 1, Append(acc, e.node))
      ELSE OkList(Append(acc, e.node), close.pos)))

\* the while (true) loop of parsePostfix, with `node` the postfix chain so far
parsePostfix(t, p, node) ==
  CASE Matches(t, p, "paren", "(") ->
         Then(parseArguments(t, p + 1), LAMBDA args :
           IF node.type # "Identifier"
           THEN Throw("Unsupported call target", TokenAt(t, args.pos), args.pos)
           ELSE parsePostfix(t, args.pos, Node("Call", node.name, "", "", "", <<>>, args.nodes)))
    [] Matches(t, p, "dot", ".") ->
         LET propTok == TokenAt(t, p + 1)
         IN Then(expect(t, p + 1, "identifier", AnyValue, "Expected property name"), LAMBDA prop :
              IF Matches(t, prop.pos, "paren", "(")
              THEN Then(parseArguments(t, prop.pos + 1), LAMBDA args :
                     parsePostfix(t, args.pos,
                       Node("MethodCall", propTok.value, "", "", "", <<node>>, args.nodes)))
              ELSE IF propTok.value = "length"
                   THEN parsePostfix(t, prop.pos, Node("Length", "", "", "", "", <<>>, <<node>>))
                   ELSE parsePostfix(t, prop.pos,
                          Node("Property", propTok.value, "", "", "", <<node>>, <<>>)))
    [] Matches(t, p, "bracket", "[") ->
         Then(parseIndices(t, p + 1, <<>>), LAMBDA idx :
           parsePostfix(t, idx.pos,
             Node("ArrayAccess", emitBaseName(node), "", "", "", <<>>, idx.nodes)))
    [] Matches(t, p, "operator", "++") \/ Matches(t, p, "operator", "--") ->
         Ok(Node("UnaryPostfix", "", t[p].value, "", "", <<>>, <<node>>), p + 1)
    [] OTHER -> Ok(node, p)

\* while (this.match("bracket", "[")) of parseArrayCreation
parseDimensions(t, p, dims) ==
  IF Matches(t, p, "bracket", "[")
  THEN IF Matches(t, p + 1, "bracket", "]")
       THEN parseDimensions(t, p + 2, Append(dims, NullNode))
       ELSE Then(parseExpression(t, p + 1), LAMBDA e :
              Then(expect(t, e.pos, "bracket", "]", "Expected ']' after array size"),
                   LAMBDA close : parseDimensions(t, close.pos, Append(dims, e.node))))
  ELSE OkList(dims, p)

\* parseArrayCreation from the dimensions on
parseArrayInitializer(t, typeTok, dims) ==
  IF Len(dims.nodes) = 0 THEN Throw("Expected '[' after array type", typeTok, dims.pos)
  ELSE IF dims.nodes[Len(dims.nodes)] = NullNode /\ Matches(t, dims.pos, "brace", "{")
       THEN IF Matches(t, dims.pos + 1, "brace", "}")
            THEN Ok(Node("ArrayLiteral", "", "", "", "", <<>>, <<>>), dims.pos + 2)
            ELSE Then(parseExpressionList(t, dims.pos + 1, <<>>), LAMBDA els :
                   Then(expect(t, els.pos, "brace", "}", "Expected '}' after array literal"),
                        LAMBDA close :
                          Ok(Node("ArrayLiteral", "", "", "", "", <<>>, els.nodes), close.pos)))
  ELSE IF \E d \in 1..Len(dims.nodes) : dims.nodes[d] = NullNode
       THEN Throw("Expected array initializer", typeTok, dims.pos)
       ELSE Ok(Node("NewArray", "", "", "", typeTok.value, <<>>, dims.nodes), dims.pos)

\* entered after the keyword new
parseArrayCreation(t, p) ==
  Then(expect(t, p, "keyword", AnyValue, "Expected type after new"), LAMBDA type :
    Then(parseDimensions(t, type.pos, <<>>), LAMBDA dims :
      parseArrayInitializer(t, TokenAt(t, p), dims)))

(***************************************************************************)
(* parser.ts: statements                                                   *)
(***************************************************************************)
RECURSIVE AheadScan(_, _, _, _, _)
\* the for loop of isAssignmentAhead / isUpdateStatementAhead: skip the
\* balanced bracket chain, then test the token after it against `ops`
AheadScan(t, i, depth, lastClose, ops) ==
  IF i > Len(t) THEN FALSE
  ELSE LET tok == t[i]
           d1 == IF tok.type = "bracket" /\ tok.value = "[" THEN depth + 1 ELSE depth
           closes == tok.type = "bracket" /\ tok.value = "]"
           d2 == IF closes THEN d1 - 1 ELSE d1
           last == IF closes /\ d2 = 0 THEN i ELSE lastClose
       IN IF d2 = 0 /\ last # -1 /\ i > last
          THEN LET after == TokenAt(t, last + 1)
               IN after.type = "operator" /\ after.value \in ops
          ELSE AheadScan(t, i + 1, d2, last, ops)

\* the shared shape of the two predicates: the next token is one of `ops`,
\* or it opens a bracket chain that one of `ops` follows
OperatorAhead(t, p, ops) ==
  LET next == TokenAt(t, p + 1)
  IN IF next.type = "undefined" THEN FALSE
     ELSE IF next.type = "operator" THEN next.value \in ops
     ELSE IF next.type # "bracket" \/ next.value # "[" THEN FALSE
     ELSE AheadScan(t, p + 1, 0, -1, ops)

isAssignmentAhead(t, p) == OperatorAhead(t, p, ASSIGNMENT_OPS)

isCallStatementAhead(t, p) == TokenAt(t, p + 1).type = "dot"

isUpdateStatementAhead(t, p) == OperatorAhead(t, p, UPDATE_OPS)

RECURSIVE parseStatement(_, _)
RECURSIVE parseStatements(_, _, _)
RECURSIVE parseBlock(_, _)
RECURSIVE parseIf(_, _)
RECURSIVE parseWhile(_, _)
RECURSIVE parseDoWhile(_, _)
RECURSIVE parseFor(_, _)
RECURSIVE SkipArrayBrackets(_, _)

\* while (this.match("bracket", "[")) this.expect("bracket", "]", ...)
SkipArrayBrackets(t, p) ==
  IF Matches(t, p, "bracket", "[")
  THEN Then(expect(t, p + 1, "bracket", "]", "Expected ']' after '[' in array declaration"),
            LAMBDA close : SkipArrayBrackets(t, close.pos))
  ELSE Ok(NullNode, p)

\* the initializer of a declaration, entered after the name and its brackets
parseInitializer(t, p) ==
  IF Matches(t, p, "operator", "=") THEN parseExpression(t, p + 1) ELSE Ok(NullNode, p)

parseDeclaration(t, p) ==
  Then(SkipArrayBrackets(t, p + 1), LAMBDA before :
    Then(expect(t, before.pos, "identifier", AnyValue, "Expected identifier in declaration"),
         LAMBDA name :
      Then(SkipArrayBrackets(t, name.pos), LAMBDA after :
        Then(parseInitializer(t, after.pos), LAMBDA init :
          Then(expect(t, init.pos, "semicolon", ";", "Expected ';' after declaration"),
               LAMBDA semi :
            Ok(Node("Declaration", TokenAt(t, before.pos).value, "", "", TokenAt(t, p).value,
                    <<>>, IF init.node = NullNode THEN <<>> ELSE <<init.node>>),
               semi.pos))))))

\* entered after the name token
parseTargetWithName(t, p, name) ==
  IF Matches(t, p, "bracket", "[")
  THEN Then(parseIndices(t, p + 1, <<>>), LAMBDA idx :
         Ok(Node("ArrayAccess", name, "", "", "", <<>>, idx.nodes), idx.pos))
  ELSE Ok(Identifier(name), p)

parseTargetFromIdentifier(t, p) ==
  Then(expect(t, p, "identifier", AnyValue, "Expected identifier"), LAMBDA nameTok :
    parseTargetWithName(t, nameTok.pos, TokenAt(t, p).value))

parseAssignment(t, p) ==
  Then(parseTargetFromIdentifier(t, p), LAMBDA target :
    Then(expect(t, target.pos, "operator", AnyValue, "Expected assignment operator"), LAMBDA op :
      LET opTok == TokenAt(t, target.pos)
      IN IF opTok.value \notin ASSIGNMENT_OPS
         THEN Throw("Unsupported assignment operator '" \o opTok.value \o "'", opTok, op.pos)
         ELSE Then(parseAssignmentExpression(t, op.pos), LAMBDA expr :
                Then(expect(t, expr.pos, "semicolon", ";", "Expected ';' after assignment"),
                     LAMBDA semi :
                  Ok(Node("Assignment", "", opTok.value, "", "",
                          <<target.node>>, <<expr.node>>), semi.pos)))))

\* if (expectSemicolon) this.expect("semicolon", ";", ...)
expectIf(expectSemicolon, t, p) ==
  IF expectSemicolon THEN expect(t, p, "semicolon", ";", "Expected ';' after update")
  ELSE Ok(NullNode, p)

parseUpdateCore(t, p, expectSemicolon) ==
  Then(parseTargetFromIdentifier(t, p), LAMBDA target :
    Then(expect(t, target.pos, "operator", AnyValue, "Expected ++ or --"), LAMBDA op :
      LET opTok == TokenAt(t, target.pos)
      IN IF opTok.value \notin UPDATE_OPS
         THEN Throw("Unsupported update operator '" \o opTok.value \o "'", opTok, op.pos)
         ELSE Then(expectIf(expectSemicolon, t, op.pos), LAMBDA semi :
                Ok(Node("Update", "", opTok.value, "", "", <<target.node>>, <<>>), semi.pos))))

parseUpdateExpression(t, p) == parseUpdateCore(t, p, FALSE)

parseUpdateStatement(t, p) == parseUpdateCore(t, p, TRUE)

parseExpressionStatement(t, p) ==
  Then(parseExpression(t, p), LAMBDA expr :
    Then(expect(t, expr.pos, "semicolon", ";", "Expected ';' after expression"), LAMBDA semi :
      Ok(Node("ExpressionStatement", "", "", "", "", <<expr.node>>, <<>>), semi.pos)))

parseCallStatement(t, p) ==
  Then(expect(t, p, "identifier", AnyValue, "Expected identifier"), LAMBDA base :
    Then(parsePostfix(t, base.pos, Identifier(TokenAt(t, p).value)), LAMBDA node :
      Then(expect(t, node.pos, "semicolon", ";", "Expected ';' after call"), LAMBDA semi :
        Ok(Node("CallStatement", "", "", "", "", <<node.node>>, <<>>), semi.pos))))

\* "(" test ")" of if, while and do-while
parseCondition(t, p, keyword) ==
  Then(expect(t, p, "paren", "(", "Expected '(' after " \o keyword), LAMBDA open :
    Then(parseExpression(t, open.pos), LAMBDA test :
      Then(expect(t, test.pos, "paren", ")", "Expected ')' after condition"), LAMBDA close :
        Ok(test.node, close.pos))))

\* while (type !== "brace" && type !== "eof") statements.push(this.parseStatement())
parseStatements(t, p, acc) ==
  IF TokenAt(t, p).type # "eof" /\ TokenAt(t, p).type # "brace"
  THEN Then(parseStatement(t, p), LAMBDA st : parseStatements(t, st.pos, Append(acc, st.node)))
  ELSE OkList(acc, p)

parseBlock(t, p) ==
  Then(expect(t, p, "brace", "{", "Expected '{' to start block"), LAMBDA open :
    Then(parseStatements(t, open.pos, <<>>), LAMBDA body :
      Then(expect(t, body.pos, "brace", "}", "Expected '}' to close block"), LAMBDA close :
        Ok(Node("Block", "", "", "", "", <<>>, body.nodes), close.pos))))

parseIf(t, p) ==
  Then(expect(t, p, "keyword", "if", "Expected if"), LAMBDA kw :
    Then(parseCondition(t, kw.pos, "if"), LAMBDA test :
      Then(parseStatement(t, test.pos), LAMBDA consequent :
        IF Matches(t, consequent.pos, "keyword", "else")
        THEN Then(parseStatement(t, consequent.pos + 1), LAMBDA alternate :
               Ok(Node("If", "", "", "", "", <<>>,
                       <<test.node, consequent.node, alternate.node>>), alternate.pos))
        ELSE Ok(Node("If", "", "", "", "", <<>>, <<test.node, consequent.node>>),
                consequent.pos))))

parseWhile(t, p) ==
  Then(expect(t, p, "keyword", "while", "Expected while"), LAMBDA kw :
    Then(parseCondition(t, kw.pos, "while"), LAMBDA test :
      Then(parseStatement(t, test.pos), LAMBDA body :
        Ok(Node("While", "", "", "", "", <<>>, <<test.node, body.node>>), body.pos))))

parseDoWhile(t, p) ==
  Then(expect(t, p, "keyword", "do", "Expected do"), LAMBDA kw :
    Then(parseStatement(t, kw.pos), LAMBDA body :
      Then(expect(t, body.pos, "keyword", "while", "Expected 'while' after do-body"), LAMBDA wh :
        Then(parseCondition(t, wh.pos, "while"), LAMBDA test :
          Then(expect(t, test.pos, "semicolon", ";", "Expected ';' after do-while"), LAMBDA semi :
            Ok(Node("DoWhile", "", "", "", "", <<>>, <<body.node, test.node>>), semi.pos))))))

\* the init clause of a for, with its ";" (parseDeclaration and parseAssignment consume it)
parseForInit(t, p) ==
  IF Matches(t, p, "semicolon", ";") THEN Ok(NullNode, p + 1)
  ELSE IF TokenAt(t, p).type = "keyword" THEN parseDeclaration(t, p)
  ELSE parseAssignment(t, p)

\* the test clause of a for, with its ";"
parseForTest(t, p) ==
  IF Matches(t, p, "semicolon", ";") THEN Ok(NullNode, p + 1)
  ELSE Then(parseExpression(t, p), LAMBDA test :
         Then(expect(t, test.pos, "semicolon", ";", "Expected ';' after for-condition"),
              LAMBDA semi : Ok(test.node, semi.pos)))

\* the expression of the update clause of a for
parseForStep(t, p) ==
  IF /\ TokenAt(t, p).type = "identifier"
     /\ TokenAt(t, p + 1).type = "operator"
     /\ TokenAt(t, p + 1).value \in {"++", "--"}
  THEN parseUpdateExpression(t, p)
  ELSE parseExpression(t, p)

\* the update clause of a for, with its ")"
parseForUpdate(t, p) ==
  IF Matches(t, p, "paren", ")") THEN Ok(NullNode, p + 1)
  ELSE Then(parseForStep(t, p), LAMBDA update :
         Then(expect(t, update.pos, "paren", ")", "Expected ')' after for-update"),
              LAMBDA close : Ok(update.node, close.pos)))

parseFor(t, p) ==
  Then(expect(t, p, "keyword", "for", "Expected for"), LAMBDA kw :
    Then(expect(t, kw.pos, "paren", "(", "Expected '(' after for"), LAMBDA open :
      Then(parseForInit(t, open.pos), LAMBDA init :
        Then(parseForTest(t, init.pos), LAMBDA test :
          Then(parseForUpdate(t, test.pos), LAMBDA update :
            Then(parseStatement(t, update.pos), LAMBDA body :
              Ok(Node("For", "", "", "", "", <<>>,
                      <<init.node, test.node, update.node, body.node>>), body.pos)))))))

parseStatement(t, p) ==
  LET tok == TokenAt(t, p)
  IN CASE tok.type = "keyword" ->
            (CASE tok.value = "if" -> parseIf(t, p)
               [] tok.value = "while" -> parseWhile(t, p)
               [] tok.value = "for" -> parseFor(t, p)
               [] tok.value = "do" -> parseDoWhile(t, p)
               [] tok.value \in {"int", "double", "float", "boolean", "char", "String"} ->
                    parseDeclaration(t, p)
               [] OTHER -> Throw("Unsupported keyword '" \o tok.value \o "'", tok, p))
       [] tok.type = "brace" /\ tok.value = "{" -> parseBlock(t, p)
       [] tok.type = "identifier" ->
            (CASE isUpdateStatementAhead(t, p) -> parseUpdateStatement(t, p)
               [] ~isUpdateStatementAhead(t, p) /\ isCallStatementAhead(t, p) ->
                    parseCallStatement(t, p)
               [] /\ ~isUpdateStatementAhead(t, p)
                  /\ ~isCallStatementAhead(t, p)
                  /\ isAssignmentAhead(t, p) -> parseAssignment(t, p)
               [] OTHER -> parseExpressionStatement(t, p))
       [] OTHER -> Throw("Unexpected token '" \o ValueOrType(tok) \o "'", tok, p)

RECURSIVE SkipModifiers(_, _)
\* while (current is the keyword public or static) this.pos += 1
SkipModifiers(t, p) ==
  IF TokenAt(t, p).type = "keyword" /\ TokenAt(t, p).value \in {"public", "static"}
  THEN SkipModifiers(t, p + 1)
  ELSE p

RECURSIVE SkipToClassBrace(_, _)
\* while (!this.match("brace", "{")) { throw at eof; this.pos += 1 }
SkipToClassBrace(t, p) ==
  IF Matches(t, p, "brace", "{") THEN Ok(NullNode, p + 1)
  ELSE IF TokenAt(t, p).type = "eof"
       THEN Throw("Expected '{' after class declaration", TokenAt(t, p), p)
       ELSE SkipToClassBrace(t, p + 1)

RECURSIVE SkipSignature(_, _)
\* while (type !== "brace" && type !== "eof") this.pos += 1
SkipSignature(t, p) ==
  IF TokenAt(t, p).type # "brace" /\ TokenAt(t, p).type # "eof" THEN SkipSignature(t, p + 1) ELSE p

\* a variant of SkipBraces that skips every token left, the end-of-stream
\* token included
SkipBraces_ToEnd(t, p) == IF p <= Len(t) THEN Len(t) + 1 ELSE p

RECURSIVE SkipBraces(_, _)
\* while (this.current().type === "brace") this.pos += 1
SkipBraces(t, p) == IF TokenAt(t, p).type = "brace" THEN SkipBraces(t, p + 1) ELSE p

\* the main method is unwrapped: the current token is one of the keywords
\* public, static and void, and a "{" ends the signature skipped from it
HasMainBlock(t, p) ==
  /\ TokenAt(t, p).type = "keyword"
  /\ TokenAt(t, p).value \in {"public", "static", "void"}
  /\ Matches(t, SkipSignature(t, p), "brace", "{")

\* where the statements of the program start: after the "{" of the main
\* block (this.parseBlock() consumes it), or at the signature's end, or here
BodyStart(t, p) ==
  IF HasMainBlock(t, p) THEN SkipSignature(t, p) + 1
  ELSE IF TokenAt(t, p).type = "keyword" /\ TokenAt(t, p).value \in {"public", "static", "void"}
       THEN SkipSignature(t, p)
       ELSE p

\* after the statements: the "}" that parseBlock expects and the closing
\* braces skipped after it, for a main block; nothing otherwise
BodyEnd(t, p, inMainBlock) ==
  IF inMainBlock
  THEN Then(expect(t, p, "brace", "}", "Expected '}' to close block"),
            LAMBDA close : Ok(NullNode, SkipBraces(t, close.pos)))
  ELSE Ok(NullNode, p)

\* parseProgram from the test for a main wrapper on: the statement loop is
\* that of parseBlock for a main block, that of parseProgram otherwise
parseMain(t, p) ==
  Then(parseStatements(t, BodyStart(t, p), <<>>), LAMBDA body :
    Then(BodyEnd(t, body.pos, HasMainBlock(t, p)), LAMBDA end :
      Ok(Node("Program", "", "", "", "", <<>>, body.nodes), end.pos)))

\* the class header: nothing to skip without the keyword class
SkipClassHeader(t, p) ==
  IF Matches(t, p, "keyword", "class") THEN SkipToClassBrace(t, p + 1) ELSE Ok(NullNode, p)

parseProgram(t) ==
  Then(SkipClassHeader(t, SkipModifiers(t, 1)), LAMBDA header : parseMain(t, header.pos))

\* { ast } of a program parsed, { error } of a throw
ParseResult(r) ==
  IF r.ok THEN [ast |-> r.node, error |-> NoError] ELSE [ast |-> Undefined, error |-> r.error]

\* parse: every throw of the parser is caught and returned as {error}
parse(t) == ParseResult(parseProgram(t))

(***************************************************************************)
(* generator.ts: styles                                                    *)
(***************************************************************************)
StyleIds == {"sc-01", "sc-02", "sc-03", "sc-04", "sc-05", "sc-06", "sc-07", "sc-08", "sc-09"}

\* the keyword set of sc-01 when upper, of the final return of resolveStyle when not;
\* a keyword a style leaves undefined is ""
BlockKeywords(upper) ==
  [if |-> IF upper THEN "IF" ELSE "if", then |-> IF upper THEN "THEN" ELSE "then",
   else |-> IF upper THEN "ELSE" ELSE "else", elseIf |-> IF upper THEN "ELSE IF" ELSE "else if",
   endIf |-> IF upper THEN "END IF" ELSE "end if", input |-> IF upper THEN "INPUT" ELSE "input",
   output |-> IF upper THEN "OUTPUT" ELSE "output", while |-> IF upper THEN "WHILE" ELSE "while",
   do |-> IF upper THEN "DO" ELSE "do", endWhile |-> IF upper THEN "END WHILE" ELSE "end while",
   repeat |-> IF upper THEN "REPEAT" ELSE "repeat", until |-> IF upper THEN "UNTIL" ELSE "until",
   for |-> IF upper THEN "FOR" ELSE "for", endFor |-> IF upper THEN "END FOR" ELSE "end for",
   loop |-> "", loopWhile |-> "", endLoop |-> ""]

\* the keyword set of sc-03 .. sc-09
LoopKeywords ==
  [if |-> "if", then |-> "then", else |-> "else", elseIf |-> "else if", endIf |-> "end if",
   input |-> "input", output |-> "output", while |-> "", do |-> "", endWhile |-> "",
   repeat |-> "", until |-> "until", for |-> "", endFor |-> "",
   loop |-> "loop", loopWhile |-> "loop while", endLoop |-> "end loop"]

\* the StyleConfig of sc-03 .. sc-09; methodTables: the style carries
\* methodAlias, methodTransform and specialMethodMap (sc-06)
LoopStyle(wrapMulInAdd, methodTables) ==
  [keyword |-> LoopKeywords, boolTrue |-> "true", boolFalse |-> "false", and |-> "and",
   or |-> "or", not |-> "not", neq |-> "<>", mod |-> "mod", indent |-> "    ",
   wrapRelationalInAssign |-> FALSE, wrapRelationalInLogical |-> TRUE,
   wrapMulInAdd |-> wrapMulInAdd, methodTables |-> methodTables]

resolveStyle(styleId) ==
  LET id == IF styleId = "" THEN "sc-02" ELSE styleId
  IN CASE id = "sc-01" ->
            [keyword |-> BlockKeywords(TRUE), boolTrue |-> "TRUE", boolFalse |-> "FALSE",
             and |-> "AND", or |-> "OR", not |-> "NOT", neq |-> "!=", mod |-> "%", indent |-> "  ",
             wrapRelationalInAssign |-> TRUE, wrapRelationalInLogical |-> TRUE,
             wrapMulInAdd |-> FALSE, methodTables |-> FALSE]
       [] id \in {"sc-03", "sc-07", "sc-09"} -> LoopStyle(FALSE, FALSE)
       [] id \in {"sc-04", "sc-05", "sc-08"} -> LoopStyle(TRUE, FALSE)
       [] id = "sc-06" -> LoopStyle(FALSE, TRUE)
       [] OTHER ->
            [keyword |-> BlockKeywords(FALSE), boolTrue |-> "true", boolFalse |-> "false",
             and |-> "and", or |-> "or", not |-> "not", neq |-> "<>", mod |-> "mod",
             indent |-> "    ", wrapRelationalInAssign |-> FALSE,
             wrapRelationalInLogical |-> TRUE, wrapMulInAdd |-> FALSE, methodTables |-> FALSE]

(***************************************************************************)
(* generator.ts: expressions                                               *)
(***************************************************************************)
RELATIONAL_OPS == {"<", ">", "<=", ">=", "==", "!="}

LOGICAL_OPS == {"&&", "||"}

RECURSIVE Join(_, _)
\* Array.prototype.join
Join(strs, sep) ==
  IF Len(strs) = 0 THEN ""
  ELSE IF Len(strs) = 1 THEN strs[1]
  ELSE strs[1] \o sep \o Join(Tail(strs), sep)

RECURSIVE Repeat(_, _)
\* String.prototype.repeat
Repeat(str, n) == IF n <= 0 THEN "" ELSE str \o Repeat(str, n - 1)

pseudoOperator(op, st) ==
  CASE op = "&&" -> st.and
    [] op = "||" -> st.or
    [] op = "==" -> "="
    [] op = "!=" -> st.neq
    [] op = "%" -> st.mod
    [] OTHER -> op

precedence(op) ==
  CASE op = "||" -> 1
    [] op = "&&" -> 2
    [] op \in {"==", "!="} -> 3
    [] op \in {"<", ">", "<=", ">="} -> 4
    [] op \in {"+", "-"} -> 5
    [] op \in {"*", "/", "%"} -> 6
    [] OTHER -> 0

isRelational(node) == node.type = "Binary" /\ node.op \in RELATIONAL_OPS

RECURSIVE getPropertyChain(_)
getPropertyChain(node) ==
  CASE node.type = "Identifier" -> <<node.name>>
    [] node.type = "Property" -> Append(getPropertyChain(node.sub[1]), node.name)
    [] OTHER -> <<>>

isSystemOut(node) == Join(getPropertyChain(node), ".") = "System.out"

scannerMethods == {"nextLine", "nextInt", "nextDouble", "nextBoolean", "next"}

RECURSIVE isScannerInputCall(_)
isScannerInputCall(node) ==
  IF node.type # "MethodCall" THEN FALSE
  ELSE IF node.name \in scannerMethods /\ node.sub[1].type = "Identifier" THEN TRUE
  ELSE IF node.name = "charAt" /\ node.sub[1].type = "MethodCall"
       THEN isScannerInputCall(node.sub[1])
       ELSE FALSE

shouldWrapChild(child, parentOp, st) ==
  IF child.type # "Binary" THEN FALSE
  ELSE IF st.wrapMulInAdd /\ parentOp = "-" /\ child.op \in {"*", "/", "%"} THEN TRUE
  ELSE IF parentOp \in RELATIONAL_OPS /\ child.op = "%" THEN TRUE
  ELSE IF parentOp \in LOGICAL_OPS /\ child.op \in RELATIONAL_OPS THEN st.wrapRelationalInLogical
  ELSE precedence(child.op) < precedence(parentOp)

RECURSIVE flattenLogicalChain(_, _)
flattenLogicalChain(op, node) ==
  IF node.type = "Binary" /\ node.op = op
  THEN flattenLogicalChain(op, node.children[1]) \o flattenLogicalChain(op, node.children[2])
  ELSE <<node>>

\* `${args[i]}`: a missing argument prints as "undefined"
ArgText(args, i) == IF i <= Len(args) THEN args[i] ELSE "undefined"

Parens(needed, text) == IF needed THEN "(" \o text \o ")" ELSE text

RECURSIVE emitExpression(_, _)
RECURSIVE emitMethodCall(_, _, _)

\* case "MethodCall" of emitExpression, with args the emitted arguments
emitMethodCall(node, args, st) ==
  LET object == node.sub[1]
      objectText == emitExpression(object, st)
      joined == Join(args, ", ")
  IN IF node.name = "remove"
     THEN IF object.type = "Identifier" /\ object.name = "map"
          THEN "remove " \o objectText \o "[" \o ArgText(args, 1) \o "]"
          ELSE objectText \o ".removeItemAt(" \o joined \o ")"
     ELSE IF st.methodTables /\ node.name = "add" /\ Len(args) = 2
          THEN objectText \o ".insertItemAt(" \o joined \o ")"
     ELSE IF st.methodTables /\ node.name = "add"
          THEN objectText \o ".addItem(" \o joined \o ")"
     ELSE IF st.methodTables /\ node.name \in {"set", "put"}
          THEN objectText \o "[" \o ArgText(args, 1) \o "] = " \o ArgText(args, 2)
     ELSE IF st.methodTables /\ node.name = "get"
          THEN objectText \o "[" \o ArgText(args, 1) \o "]"
     ELSE IF st.methodTables /\ node.name = "containsKey"
          THEN "containsKey(" \o objectText \o ", " \o ArgText(args, 1) \o ")"
     ELSE IF st.methodTables /\ node.name = "size"
          THEN "length(" \o objectText \o ")"
     ELSE IF st.methodTables /\ node.name = "addAt"
          THEN objectText \o ".insertItemAt(" \o joined \o ")"
     ELSE objectText \o "." \o node.name \o "(" \o joined \o ")"

emitExpression(node, st) ==
  LET kids == [i \in 1..Len(node.children) |-> emitExpression(node.children[i], st)]
  IN CASE node.type = "Literal" ->
            (IF node.value = "true" THEN st.boolTrue
             ELSE IF node.value = "false" THEN st.boolFalse
             ELSE node.value)
       [] node.type = "Identifier" -> node.name
       [] node.type = "Property" -> emitExpression(node.sub[1], st) \o "." \o node.name
       [] node.type = "Call" -> node.name \o "(" \o Join(kids, ", ") \o ")"
       [] node.type = "MethodCall" -> emitMethodCall(node, kids, st)
       [] node.type = "ArrayAccess" -> node.name \o "[" \o Join(kids, "][") \o "]"
       [] node.type = "Length" -> "length(" \o kids[1] \o ")"
       [] node.type = "NewArray" -> "new array[" \o Join(kids, "][") \o "]"
       [] node.type = "ArrayLiteral" -> "[" \o Join(kids, ", ") \o "]"
       [] node.type = "Unary" ->
            LET inner == Parens(node.children[1].type = "Binary", kids[1])
            IN IF node.op = "!" THEN st.not \o " " \o inner ELSE node.op \o inner
       [] node.type = "UnaryPostfix" ->
            (IF node.op = "++" THEN kids[1] \o " + 1"
             ELSE IF node.op = "--" THEN kids[1] \o " - 1"
             ELSE kids[1] \o " " \o pseudoOperator(node.op, st))
       [] node.type = "Update" ->
            LET target == emitExpression(node.sub[1], st)
            IN target \o " = " \o target \o " " \o (IF node.op = "++" THEN "+" ELSE "-") \o " 1"
       [] node.type = "Binary" ->
            IF node.op \in LOGICAL_OPS
            THEN LET chain == flattenLogicalChain(node.op, node)
                     wrapRel == node.op = "&&" \/ (node.op = "||" /\ Len(chain) = 2)
                     rendered == [i \in 1..Len(chain) |->
                                    Parens(wrapRel /\ isRelational(chain[i]),
                                           emitExpression(chain[i], st))]
                 IN Join(rendered, " " \o pseudoOperator(node.op, st) \o " ")
            ELSE Parens(shouldWrapChild(node.children[1], node.op, st), kids[1])
                 \o " " \o pseudoOperator(node.op, st) \o " "
                 \o Parens(shouldWrapChild(node.children[2], node.op, st), kids[2])
       [] OTHER -> "<?>"

formatRhs(expr, st) ==
  Parens(st.wrapRelationalInAssign /\ isRelational(expr), emitExpression(expr, st))

RECURSIVE flattenConcat(_)
flattenConcat(node) ==
  IF node.type = "Binary" /\ node.op = "+"
  THEN flattenConcat(node.children[1]) \o flattenConcat(node.children[2])
  ELSE <<node>>

isStringLiteral(node) == node.type = "Literal" /\ CharAt(node.value, 1) = "\""

containsStringLiteral(nodes) == \E i \in 1..Len(nodes) : isStringLiteral(nodes[i])

formatOutputExpression(node, st) == Parens(node.type = "Binary", emitExpression(node, st))

formatOutputArgsFromExpression(expr, st) ==
  LET parts == flattenConcat(expr)
  IN IF Len(parts) > 1 /\ containsStringLiteral(parts)
     THEN [i \in 1..Len(parts) |->
             IF isStringLiteral(parts[i]) THEN parts[i].value
             ELSE formatOutputExpression(parts[i], st)]
     ELSE <<formatOutputExpression(expr, st)>>

formatOutputArgsFromCall(call, st) ==
  IF Len(call.children) = 0 THEN <<>>
  ELSE IF Len(call.children) = 1 THEN formatOutputArgsFromExpression(call.children[1], st)
  ELSE [i \in 1..Len(call.children) |-> formatOutputExpression(call.children[i], st)]

\* null is [some |-> FALSE]
formatSystemOutCall(call, st) ==
  IF call.type # "MethodCall" \/ call.name \notin {"print", "println"}
  THEN [some |-> FALSE, text |-> ""]
  ELSE IF ~isSystemOut(call.sub[1]) THEN [some |-> FALSE, text |-> ""]
  ELSE LET args == formatOutputArgsFromCall(call, st)
       IN IF Len(args) = 0 THEN [some |-> TRUE, text |-> st.keyword.output]
          ELSE [some |-> TRUE, text |-> st.keyword.output \o " " \o Join(args, ", ")]

(***************************************************************************)
(* generator.ts: statements                                                *)
(***************************************************************************)
invertCondition(node) ==
  LET inverse == [op \in RELATIONAL_OPS |->
                    CASE op = "<" -> ">="
                      [] op = "<=" -> ">"
                      [] op = ">" -> "<="
                      [] op = ">=" -> "<"
                      [] op = "==" -> "!="
                      [] OTHER -> "=="]
  IN IF node.type = "Unary" /\ node.op = "!" THEN node.children[1]
     ELSE IF node.type = "Binary" /\ node.op \in RELATIONAL_OPS
          THEN Node("Binary", "", inverse[node.op], "", "", <<>>, node.children)
          ELSE Node("Unary", "", "!", "", "", <<>>, <<node>>)

IsDigits(text) == Len(text) > 0 /\ \A i \in 1..Len(text) : CharAt(text, i) \in DigitChars

DigitValue(ch) == CHOOSE d \in 0..9 : ToString(d) = ch

RECURSIVE DecimalValue(_)
DecimalValue(text) ==
  IF Len(text) = 0 THEN 0
  ELSE 10 * DecimalValue(Slice(text, 1, Len(text) - 1)) + DigitValue(CharAt(text, Len(text)))

\* Number(text) for the texts a loop bound or step takes here: an integer
\* numeral, with a sign or not, is its value and any other text is NaN
\* (numerals with a fraction are not among the loop bounds generated)
ToNumber(text) ==
  IF IsDigits(text) THEN [nan |-> FALSE, val |-> DecimalValue(text)]
  ELSE IF CharAt(text, 1) = "-" /\ IsDigits(Slice(text, 2, Len(text)))
       THEN [nan |-> FALSE, val |-> 0 - DecimalValue(Slice(text, 2, Len(text)))]
       ELSE [nan |-> TRUE, val |-> 0]

\* `${a + b}` of two numbers
NumberText(a, b) == IF a.nan \/ b.nan THEN "NaN" ELSE ToString(a.val + b.val)

RECURSIVE TrimStart(_)
TrimStart(text) ==
  IF Len(text) > 0 /\ IsSpaceChar(CharAt(text, 1)) THEN TrimStart(Slice(text, 2, Len(text)))
  ELSE text

RECURSIVE TrimEnd(_)
TrimEnd(text) ==
  IF Len(text) > 0 /\ IsSpaceChar(CharAt(text, Len(text)))
  THEN TrimEnd(Slice(text, 1, Len(text) - 1))
  ELSE text

Trim(text) == TrimEnd(TrimStart(text))

\* the end of the range for a test `v < rhs` (sign = -1) or `v > rhs` (sign = 1)
ForEndText(rhsNode, rhsText, step, sign) ==
  IF rhsNode.type = "Literal"
  THEN LET rhsNum == ToNumber(rhsText)
           stepNum == ToNumber(step)
           one == [nan |-> FALSE, val |-> sign]
       IN IF ~rhsNum.nan /\ ~stepNum.nan /\ stepNum.val > 0
          THEN NumberText(rhsNum, [nan |-> FALSE, val |-> sign * stepNum.val])
          ELSE NumberText(rhsNum, one)
  ELSE rhsText \o (IF sign < 0 THEN " - " ELSE " + ") \o step

formatForLoop(init, test, update, st) ==
  LET name == IF init.type = "Assignment" THEN emitExpression(init.sub[1], st)
              ELSE IF init.type = "Declaration" THEN init.name
              ELSE ""
      start == IF init.type = "Assignment" THEN emitExpression(init.children[1], st)
               ELSE IF init.type = "Declaration" /\ Len(init.children) > 0
                    THEN emitExpression(init.children[1], st)
                    ELSE "0"
      isAssign == update.type \in {"Assignment", "AssignmentExpr"}
      step == IF isAssign /\ update.op \in {"+=", "-="}
              THEN emitExpression(update.children[1], st)
              ELSE "1"
      updateDirection == IF update.type = "Update" /\ update.op = "--" THEN "downto"
                         ELSE IF isAssign /\ update.op = "-=" THEN "downto"
                         ELSE "to"
      isBinary == test.type = "Binary"
      rhsNode == IF isBinary THEN test.children[2] ELSE NullNode
      rhsText == IF isBinary THEN emitExpression(rhsNode, st) ELSE ""
      endText == IF ~isBinary THEN ""
                 ELSE CASE test.op = "<" -> ForEndText(rhsNode, rhsText, step, -1)
                        [] test.op = "<=" -> rhsText
                        [] test.op = ">" -> ForEndText(rhsNode, rhsText, step, 1)
                        [] test.op = ">=" -> rhsText
                        [] OTHER -> ""
      direction == IF isBinary /\ test.op \in {">", ">="} THEN "downto" ELSE updateDirection
      stepText == IF step = "1" THEN "" ELSE " step " \o step
  IN Trim(name \o " from " \o start \o " " \o direction \o " " \o endText \o stepText)

\* a variant of collectIfChain that does not follow the alternate: every
\* If is a chain of one link, and an If alternate is its final else
collectIfChain_Unflattened(node) ==
  [chain |-> << <<node.children[1], node.children[2]>> >>,
   finalElse |-> IF Len(node.children) >= 3 THEN node.children[3] ELSE NullNode]

RECURSIVE collectIfChain(_)
\* chain: the <<test, consequent>> pairs; finalElse: NullNode when absent
collectIfChain(node) ==
  LET link == <<node.children[1], node.children[2]>>
  IN IF Len(node.children) >= 3 /\ node.children[3].type = "If"
     THEN LET rest == collectIfChain(node.children[3])
          IN [chain |-> <<link>> \o rest.chain, finalElse |-> rest.finalElse]
     ELSE [chain |-> <<link>>,
           finalElse |-> IF Len(node.children) >= 3 THEN node.children[3] ELSE NullNode]

\* opMap[op] of the Assignment and AssignmentExpr cases, through pseudoOperator
CompoundOperator(op, st) ==
  IF op \in {"+=", "-=", "*=", "/=", "%="}
  THEN pseudoOperator(Slice(op, 1, 1), st)
  ELSE "undefined"

\* the Assignment and AssignmentExpr cases of walk
AssignmentLine(node, st) ==
  LET target == emitExpression(node.sub[1], st)
      rhs == node.children[1]
      op == IF node.op = "" THEN "=" ELSE node.op
  IN IF isScannerInputCall(rhs) THEN st.keyword.input \o " " \o target
     ELSE IF op = "=" THEN target \o " = " \o formatRhs(rhs, st)
     ELSE target \o " = " \o target \o " " \o CompoundOperator(op, st) \o " "
          \o emitExpression(rhs, st)

\* the header of a For under a style without the loop keyword
ForHeader(init, test, update, st) ==
  LET initText == IF init.type = "Declaration"
                  THEN init.name \o " = " \o (IF Len(init.children) > 0
                                              THEN emitExpression(init.children[1], st)
                                              ELSE "0")
                  ELSE IF init.type = "Assignment"
                       THEN emitExpression(init.sub[1], st) \o " = "
                            \o emitExpression(init.children[1], st)
                       ELSE ""
      condText == IF test.type = "Null" THEN "" ELSE emitExpression(test, st)
      updateText == IF update.type = "Binary"
                    THEN emitExpression(update.children[1], st) \o " "
                         \o pseudoOperator(update.op, st) \o " "
                         \o emitExpression(update.children[2], st)
                    ELSE IF update.type = "Null" THEN ""
                    ELSE emitExpression(update, st)
  IN st.keyword.for \o " " \o initText \o " ; " \o condText \o " ; " \o updateText

RECURSIVE walk(_, _, _)
RECURSIVE walkAll(_, _, _)
RECURSIVE walkChain(_, _, _, _)

\* node.children.forEach(child => walk(child, depth))
walkAll(nodes, depth, st) ==
  IF Len(nodes) = 0 THEN <<>>
  ELSE walk(nodes[1], depth, st) \o walkAll(Tail(nodes), depth, st)

\* chain.forEach of the If case, from item index on
walkChain(chain, index, depth, st) ==
  IF index > Len(chain) THEN <<>>
  ELSE LET pad == Repeat(st.indent, depth)
           head == IF index = 1 THEN st.keyword.if ELSE st.keyword.elseIf
       IN <<pad \o head \o " " \o emitExpression(chain[index][1], st) \o " " \o st.keyword.then>>
          \o walk(chain[index][2], depth + 1, st)
          \o walkChain(chain, index + 1, depth, st)

\* the lines that walk(node, depth) pushes
walk(node, depth, st) ==
  LET pad == Repeat(st.indent, depth)
      kw == st.keyword
  IN CASE node.type \in {"Program", "Block"} -> walkAll(node.children, depth, st)
       [] node.type = "Declaration" ->
            (IF Len(node.children) = 0 THEN <<pad \o node.name>>
             ELSE IF isScannerInputCall(node.children[1])
                  THEN <<pad \o kw.input \o " " \o node.name>>
                  ELSE <<pad \o node.name \o " = " \o formatRhs(node.children[1], st)>>)
       [] node.type \in {"Assignment", "AssignmentExpr"} -> <<pad \o AssignmentLine(node, st)>>
       [] node.type = "Update" ->
            LET target == emitExpression(node.sub[1], st)
            IN <<pad \o target \o " = " \o target \o " "
                 \o (IF node.op = "++" THEN "+" ELSE "-") \o " 1">>
       [] node.type \in {"CallStatement", "ExpressionStatement"} ->
            LET outputLine == formatSystemOutCall(node.sub[1], st)
            IN IF outputLine.some THEN <<pad \o outputLine.text>>
               ELSE <<pad \o emitExpression(node.sub[1], st)>>
       [] node.type = "If" ->
            LET c == collectIfChain(node)
            IN walkChain(c.chain, 1, depth, st)
               \o (IF c.finalElse.type = "Null" THEN <<>>
                   ELSE <<pad \o kw.else>> \o walk(c.finalElse, depth + 1, st))
               \o <<pad \o kw.endIf>>
       [] node.type = "While" ->
            (IF kw.loopWhile # ""
             THEN <<pad \o kw.loopWhile \o " " \o emitExpression(node.children[1], st)>>
                  \o walk(node.children[2], depth + 1, st)
                  \o <<pad \o kw.endLoop>>
             ELSE <<pad \o kw.while \o " " \o emitExpression(node.children[1], st) \o " " \o kw.do>>
                  \o walk(node.children[2], depth + 1, st)
                  \o <<pad \o kw.endWhile>>)
       [] node.type = "DoWhile" ->
            (IF kw.loop # ""
             THEN <<pad \o kw.loop>>
                  \o walk(node.children[1], depth + 1, st)
                  \o <<pad \o kw.until \o " "
                       \o emitExpression(invertCondition(node.children[2]), st)>>
             ELSE <<pad \o kw.repeat>>
                  \o walk(node.children[1], depth + 1, st)
                  \o <<pad \o kw.until \o " " \o emitExpression(node.children[2], st)>>)
       [] node.type = "For" ->
            (IF kw.loop # ""
             THEN <<pad \o kw.loop \o " "
                    \o formatForLoop(node.children[1], node.children[2], node.children[3], st)>>
                  \o walk(node.children[4], depth + 1, st)
                  \o <<pad \o kw.endLoop>>
             ELSE <<pad \o ForHeader(node.children[1], node.children[2], node.children[3], st)>>
                  \o walk(node.children[4], depth + 1, st)
                  \o <<pad \o kw.endFor>>)
       [] OTHER -> <<pad \o "/* unsupported node " \o node.type \o " */">>

\* threw: walk(undefined) raises a TypeError on `node.type`
generatePseudocode(tree, styleId) ==
  IF tree = Undefined THEN [threw |-> TRUE, pseudocode |-> ""]
  ELSE [threw |-> FALSE, pseudocode |-> Join(walk(tree, 0, resolveStyle(styleId)), "\n")]

(***************************************************************************)
(* convert.ts: the calls of convert, one step per statement                *)
(***************************************************************************)
NumCalls == 3

Calls == 1..NumCalls

StageOrder == <<"normalize", "scopeGuard", "tokenize", "parse", "generate">>

NoOutcome == [kind |-> "none", pseudocode |-> "", errors |-> <<>>]

\* return { errors: [e] }
Errors(e) == [kind |-> "errors", pseudocode |-> "", errors |-> <<e>>]

\* return { pseudocode }
Pseudocode(text) == [kind |-> "pseudocode", pseudocode |-> text, errors |-> <<>>]

\* the call ends with an uncaught TypeError
Thrown == [kind |-> "thrown", pseudocode |-> "", errors |-> <<>>]

\* a variant of TokensOf in which the token buffer is one per module: every
\* call reads the buffer of the call that was started last
TokensOf_Shared(c) == tokens[NumCalls]

\* this.tokens of the Parser that call c constructs
TokensOf(c) == tokens[c]

\* if (!javaSource || !javaSource.trim()) return { errors: [err("input", "Empty input")] }
CheckInput(c) ==
  /\ pc[c] = "start"
  /\ IF IsBlank(source[c])
     THEN /\ outcome' = [outcome EXCEPT ![c] = Errors(err("input", "Empty input", 1, 1))]
          /\ pc' = [pc EXCEPT ![c] = "done"]
     ELSE /\ pc' = [pc EXCEPT ![c] = "normalize"]
          /\ UNCHANGED outcome
  /\ UNCHANGED <<source, style, normalized, tokens, ast, trace>>

\* const normalized = normalize(javaSource)
Normalize(c) ==
  /\ pc[c] = "normalize"
  /\ normalized' = [normalized EXCEPT ![c] = normalize(source[c])]
  /\ trace' = [trace EXCEPT ![c] = Append(@, "normalize")]
  /\ pc' = [pc EXCEPT ![c] = "scope"]
  /\ UNCHANGED <<source, style, tokens, ast, outcome>>

\* const scopeError = scopeGuard(normalized); if (scopeError) return { errors: [scopeError] }
ScopeGuard(c) ==
  LET scopeError == scopeGuard(normalized[c])
  IN /\ pc[c] = "scope"
     /\ trace' = [trace EXCEPT ![c] = Append(@, "scopeGuard")]
     /\ IF scopeError # NoError
        THEN /\ outcome' = [outcome EXCEPT ![c] = Errors(scopeError)]
             /\ pc' = [pc EXCEPT ![c] = "done"]
        ELSE /\ pc' = [pc EXCEPT ![c] = "tokenize"]
             /\ UNCHANGED outcome
     /\ UNCHANGED <<source, style, normalized, tokens, ast>>

\* const tokenResult = tokenize(normalized); if (tokenResult.error) return ...
Tokenize(c) ==
  LET tokenResult == tokenize(normalized[c])
  IN /\ pc[c] = "tokenize"
     /\ trace' = [trace EXCEPT ![c] = Append(@, "tokenize")]
     /\ tokens' = [tokens EXCEPT ![c] = tokenResult.tokens]
     /\ IF tokenResult.error # NoError
        THEN /\ outcome' = [outcome EXCEPT ![c] = Errors(tokenResult.error)]
             /\ pc' = [pc EXCEPT ![c] = "done"]
        ELSE /\ pc' = [pc EXCEPT ![c] = "parse"]
             /\ UNCHANGED outcome
     /\ UNCHANGED <<source, style, normalized, ast>>

\* try { const parseResult = parse(tokenResult.tokens || []); ast = parseResult.ast }
\* parse returns its error in parseResult.error and throws nothing, so the
\* catch clause is never entered; parseResult.error is not read
Parse(c) ==
  LET parseResult == parse(TokensOf(c))
  IN /\ pc[c] = "parse"
     /\ trace' = [trace EXCEPT ![c] = Append(@, "parse")]
     /\ ast' = [ast EXCEPT ![c] = parseResult.ast]
     /\ pc' = [pc EXCEPT ![c] = "generate"]
     /\ UNCHANGED <<source, style, normalized, tokens, outcome>>

RECURSIVE InvertedInPlace(_)
\* the tree of `node` with the test of every DoWhile node replaced by its
\* inverse
InvertedInPlace(node) ==
  IF node.type = "DoWhile"
  THEN [node EXCEPT !.children = <<@[1], invertCondition(@[2])>>]
  ELSE [node EXCEPT !.children = [i \in 1..Len(@) |-> InvertedInPlace(@[i])]]

\* a variant of Generate in which the generator inverts the tests of the
\* do-while loops in the tree itself
Generate_InvertsInPlace(c) ==
  LET generated == generatePseudocode(ast[c], style[c])
  IN /\ pc[c] = "generate"
     /\ trace' = [trace EXCEPT ![c] = Append(@, "generate")]
     /\ outcome' = [outcome EXCEPT ![c] = IF generated.threw THEN Thrown
                                          ELSE Pseudocode(generated.pseudocode)]
     /\ pc' = [pc EXCEPT ![c] = "done"]
     /\ ast' = [ast EXCEPT ![c] = InvertedInPlace(@)]
     /\ UNCHANGED <<source, style, normalized, tokens>>

\* const pseudocode = generatePseudocode(ast, options); return { pseudocode }
Generate(c) ==
  LET generated == generatePseudocode(ast[c], style[c])
  IN /\ pc[c] = "generate"
     /\ trace' = [trace EXCEPT ![c] = Append(@, "generate")]
     /\ outcome' = [outcome EXCEPT ![c] = IF generated.threw THEN Thrown
                                          ELSE Pseudocode(generated.pseudocode)]
     /\ pc' = [pc EXCEPT ![c] = "done"]
     /\ UNCHANGED <<source, style, normalized, tokens, ast>>

Next ==
  \E c \in Calls :
    \/ CheckInput(c)
    \/ Normalize(c)
    \/ ScopeGuard(c)
    \/ Tokenize(c)
    \/ Parse(c)
    \/ Generate(c)

\* the calls in `active` are entered with a source of `pool` and a style of
\* `styles`; the other calls are never made ("idle")
Begin(active, pool, styles) ==
  /\ pc = [c \in Calls |-> IF c \in active THEN "start" ELSE "idle"]
  /\ \E src \in [active -> pool] :
       source = [c \in Calls |-> IF c \in active THEN src[c] ELSE ""]
  /\ \E sty \in [active -> styles] :
       style = [c \in Calls |-> IF c \in active THEN sty[c] ELSE ""]
  /\ normalized = [c \in Calls |-> ""]
  /\ tokens = [c \in Calls |-> <<>>]
  /\ ast = [c \in Calls |-> Undefined]
  /\ trace = [c \in Calls |-> <<>>]
  /\ outcome = [c \in Calls |-> NoOutcome]

(***************************************************************************)
(* The calls checked: who calls convert, and with what                     *)
(***************************************************************************)
\* a source of the supported subset, rendered differently by the two styles
\* of Init, and a source that the scope guard refuses
SharedPool == {"do x++; while (x < 3);", "try"}

\* several calls at once, their statements interleaved
Init == Begin(Calls, SharedPool, {"sc-01", "sc-03"})

Spec == Init /\ [][Next]_vars

MaxSnips == 2

\* pieces of source text: blank text, statements with and without their
\* ';', the words of the scope guard, an unterminated string
Snippets ==
  {"", " \t", "int x = 5;", "x = 5", "interface", "implements", "extends", "throws",
   "try", "catch", "switch", "class A {}", "List<Integer> xs;", "tryx", "// try", "\"a"}

Separators == {" ", "\n"}

RECURSIVE Joined(_)
\* the texts made of 1..n snippets
Joined(n) ==
  IF n <= 1 THEN Snippets
  ELSE LET shorter == Joined(n - 1)
       IN shorter \cup {a \o sep \o b : a \in shorter, sep \in Separators, b \in Snippets}

PipelinePool == Joined(MaxSnips)

InitPipeline == Begin({1}, PipelinePool, {"", "sc-03"})

\* one call, of any text made of the snippets
SpecPipeline == InitPipeline /\ [][Next]_vars

\* a statement of each kind that ends with ';', written without it
UnterminatedStatements ==
  {"int x = 5", "x = 5", "x++", "foo(1)", "a.b()", "do x++; while (x < 3)"}

\* a source whose only fault is the missing ';' of `stmt`, which stands at
\* the top level or (block) in the block of an if
SemiCases ==
  [block : BOOLEAN, pre : {"", "int a = 1;\n"}, stmt : UnterminatedStatements,
   post : {"", "\ny = 2;", " z++;"}]

SemiHead(case) == (IF case.block THEN "if (a) { " ELSE "") \o case.pre \o case.stmt

SemiSource(case) == SemiHead(case) \o case.post \o (IF case.block THEN " }" ELSE "")

InitSemi == Begin({1}, {SemiSource(case) : case \in SemiCases}, {"", "sc-03"})

\* one call, of a source that lacks one ';'
SpecSemi == InitSemi /\ [][Next]_vars

MaxLit == 5

\* for (int v = a; v < N; v++) and for (int v = a; v > N; v--)
ForCases == [v : {"i", "k"}, a : {"0", "5", "n"}, N : 0..MaxLit, down : BOOLEAN]

ForSource(case) ==
  "for (int " \o case.v \o " = " \o case.a \o "; " \o case.v
  \o (IF case.down THEN " > " ELSE " < ") \o ToString(case.N) \o "; " \o case.v
  \o (IF case.down THEN "--" ELSE "++") \o ") { sum = sum + " \o case.v \o "; }"

DoTests ==
  {"x < 10", "x <= 10", "x > y", "x >= 1", "x == 1", "x != 1", "!done", "done",
   "a && b", "!(a < b)"}

DoSource(test) == "do { x = x + 1; } while (" \o test \o ");"

LoopPool == {ForSource(case) : case \in ForCases} \cup {DoSource(test) : test \in DoTests}

InitLoops == Begin({1}, LoopPool, StyleIds \cup {""})

\* one call, of a for loop or a do-while loop, under each style and under none
SpecLoops == InitLoops /\ [][Next]_vars

MaxElseIfs == 2

\* an if with n else-if branches, with a final else or without, its bodies
\* in braces or not, at the top level or (nested) in the body of a while
IfCases == [n : 0..MaxElseIfs, final : BOOLEAN, braces : BOOLEAN, nested : BOOLEAN]

IfBody(case, k) ==
  IF case.braces THEN "{ x = " \o ToString(k) \o "; }" ELSE "x = " \o ToString(k) \o ";"

RECURSIVE IfBranches(_, _)
\* the branches k .. n: "if (ck) body" and the else that leads to the next
IfBranches(case, k) ==
  "if (c" \o ToString(k) \o ") " \o IfBody(case, k)
  \o (IF k < case.n THEN " else " \o IfBranches(case, k + 1)
      ELSE IF case.final THEN " else " \o IfBody(case, k + 1) ELSE "")

IfSource(case) ==
  IF case.nested THEN "while (w) { " \o IfBranches(case, 0) \o " }" ELSE IfBranches(case, 0)

InitIf == Begin({1}, {IfSource(case) : case \in IfCases}, StyleIds \cup {""})

\* one call, of an if / else-if chain, under each style and under none
SpecIf == InitIf /\ [][Next]_vars

MaxParts == 3

\* the parts of a concatenation chain: src is the part as written, arg the
\* argument that stands for it; a string literal, a variable, and binary
\* expressions with parentheses and (the product) without
OutParts ==
  {[src |-> "\"Hello \"", arg |-> "\"Hello \"", literal |-> TRUE],
   [src |-> "name", arg |-> "name", literal |-> FALSE],
   [src |-> "(a + b)", arg |-> "(a + b)", literal |-> FALSE],
   [src |-> "a * b", arg |-> "(a * b)", literal |-> FALSE],
   [src |-> "(a - b)", arg |-> "(a - b)", literal |-> FALSE]}

\* the chains of 2 .. MaxParts parts with a string literal among them
OutChains ==
  {chain \in UNION {[1..n -> OutParts] : n \in 2..MaxParts} :
     \E i \in DOMAIN chain : chain[i].literal}

OutCases == [call : {"print", "println"}, chain : OutChains]

OutSource(case) ==
  "System.out." \o case.call \o "("
  \o Join([i \in DOMAIN case.chain |-> case.chain[i].src], " + ") \o ");"

InitOutput == Begin({1}, {OutSource(case) : case \in OutCases}, {"", "sc-01", "sc-03"})

\* one call, of an output statement whose argument is a concatenation chain
SpecOutput == InitOutput /\ [][Next]_vars

\* the input methods of a line-reading variable
InputMethods == {"next", "nextLine", "nextInt", "nextDouble", "nextFloat", "nextBoolean"}

\* a declaration (declared) or an assignment of x whose right-hand side is
\* the call recv.method()
InputCases == [declared : BOOLEAN, recv : {"sc", "myObj"}, method : InputMethods]

InputSource(case) ==
  (IF case.declared THEN "float x = " ELSE "x = ") \o case.recv \o "." \o case.method \o "();"

InitInput == Begin({1}, {InputSource(case) : case \in InputCases}, {"", "sc-01", "sc-05"})

\* one call, of a statement that reads x from a line-reading variable
SpecInput == InitInput /\ [][Next]_vars

\* a call statement recv.method(args): methods with an entry in the tables
\* of sc-06 and methods without one, with 0, 1 and 2 arguments
MethodCases ==
  [recv : {"list", "map"}, method : {"add", "get", "size", "remove", "push", "foo"},
   args : {"", "0", "0, v"}]

MethodSource(case) == case.recv \o "." \o case.method \o "(" \o case.args \o ");"

InitMethods == Begin({1}, {MethodSource(case) : case \in MethodCases}, StyleIds \cup {""})

\* one call, of a method call statement, under each style and under none
SpecMethods == InitMethods /\ [][Next]_vars

MaxPieces == 2

Segment(text, kind) == [text |-> text, kind |-> kind]

\* pieces of source text, each a sequence of segments of kind "code",
\* "comment" or "string": a statement, a line comment with the line break
\* that ends it, block comments, a tab, a line break, and string and
\* character literals with comment delimiters, escapes and a tab inside
Pieces ==
  {<<Segment("x = 1;", "code")>>,
   <<Segment("// c'd", "comment"), Segment("\n", "code")>>,
   <<Segment("/* a\n * b */", "comment")>>,
   <<Segment("/**/", "comment")>>,
   <<Segment("\t", "code")>>,
   <<Segment("\r\n", "code")>>,
   <<Segment("\"a // b /* c\"", "string")>>,
   <<Segment("'\\''", "string")>>,
   <<Segment("\"q\\\\\"", "string")>>,
   <<Segment("\"t\tb\"", "string")>>}

\* the sources made of 1 .. MaxPieces pieces
PieceCases == UNION {[1..n -> Pieces] : n \in 1..MaxPieces}

RECURSIVE Flatten(_)
Flatten(seqs) == IF Len(seqs) = 0 THEN <<>> ELSE Head(seqs) \o Flatten(Tail(seqs))

\* the segments of a case, in order
SegmentsOf(case) == Flatten(case)

RECURSIVE TextOf(_)
TextOf(segments) ==
  IF Len(segments) = 0 THEN "" ELSE Head(segments).text \o TextOf(Tail(segments))

PieceSource(case) == TextOf(SegmentsOf(case))

InitPieces == Begin({1}, {PieceSource(case) : case \in PieceCases}, {""})

\* one call, of a source made of statements, comments, white space and literals
SpecPieces == InitPieces /\ [][Next]_vars

\* the most pieces that a source of the token pool is made of
MaxToks == 2

\* pieces of source text for the tokenizer, each a sequence of segments whose
\* kind is the type of the token that the segment is ("space": white space,
\* which is no token): statements with string and character literals, with
\* and without escapes, the operators and punctuation, white space
TokenPieces ==
  {<<Segment("s", "identifier"), Segment(" ", "space"), Segment("=", "operator"),
     Segment(" ", "space"), Segment("\"a\\n\"", "string"), Segment(";", "semicolon")>>,
   <<Segment("c", "identifier"), Segment("=", "operator"), Segment("'x'", "string"),
     Segment(";", "semicolon")>>,
   <<Segment("s", "identifier"), Segment("=", "operator"),
     Segment("\"q\\\"\\\\\"", "string"), Segment(";", "semicolon")>>,
   <<Segment("x", "identifier"), Segment(" ", "space"), Segment("+=", "operator"),
     Segment(" ", "space"), Segment("12", "number"), Segment(";", "semicolon")>>,
   <<Segment("f", "identifier"), Segment("(", "paren"), Segment("a", "identifier"),
     Segment(",", "comma"), Segment(" ", "space"), Segment("b", "identifier"),
     Segment("[", "bracket"), Segment("1", "number"), Segment("]", "bracket"),
     Segment(")", "paren"), Segment(";", "semicolon")>>,
   <<Segment("if", "keyword"), Segment(" ", "space"), Segment("(", "paren"),
     Segment("x", "identifier"), Segment(".", "dot"), Segment("y", "identifier"),
     Segment(")", "paren"), Segment(" ", "space"), Segment("{", "brace"),
     Segment("}", "brace")>>,
   <<Segment("\n", "space")>>,
   <<Segment("  ", "space")>>,
   <<Segment("\"\"", "string")>>,
   <<Segment("3.5", "number"), Segment(" ", "space")>>}

\* how a source of the pool ends: with nothing more, or with a literal that
\* is not closed ("open") at the end of the input, one whose last quote is
\* escaped, or one that a line break ends
TokenTails ==
  {<<>>,
   <<Segment("\"un", "open")>>,
   <<Segment("'", "open")>>,
   <<Segment("\"u\\\"", "open")>>,
   <<Segment("\"un", "open"), Segment("\n", "space"), Segment("x", "identifier"),
     Segment(";", "semicolon")>>}

\* the sources made of 1 .. MaxToks pieces and a tail
TokenCases ==
  {Flatten(body) \o tail : body \in UNION {[1..n -> TokenPieces] : n \in 1..MaxToks},
                           tail \in TokenTails}

InitTokens == Begin({1}, {TextOf(segments) : segments \in TokenCases}, {""})

\* one call, of a source that is a sequence of tokens and white space,
\* possibly ending with a literal that is not closed
SpecTokens == InitTokens /\ [][Next]_vars

\* the most statements in the body of a program of the parser pool
MaxStmts == 2

\* statements that the lookahead predicates tell apart (an update, a call
\* and an assignment, of a name and of an array element), a declaration, an
\* if, a for loop and a block; and statements that do not parse
CursorStatements ==
  {"i++;", "a[i]++;", "a[i + 1] = x;", "x.f(1, y);", "int[] b = new int[3];",
   "for (int i = 0; i < 3; i++) { x += i; }", "if (x < 1) { y = -1; } else y = 2;",
   "x = ;", "}"}

\* the bodies of 1 .. MaxStmts statements
CursorBodies ==
  {Join(body, " ") : body \in UNION {[1..n -> CursorStatements] : n \in 1..MaxStmts}}

\* a body alone, in a class with a main method, and after a class header
\* and a main signature that no "{" follows
CursorPool ==
  UNION {{body,
          "public class A { public static void main(String[] args) { " \o body \o " } }",
          "class A " \o body,
          "static void main() " \o body} : body \in CursorBodies}

InitCursor == Begin({1}, CursorPool, {""})

\* one call, of a program with or without a class and a main method around
\* its statements
SpecCursor == InitCursor /\ [][Next]_vars

\* left-hand expressions written before an assignment operator: the kinds
\* of target that are allowed (a name, an array element) and other kinds
TargetTexts == {"x", "a[0]", "a[i][1]"}

OtherLeftTexts == {"x.y", "f(x)", "-x", "a + b", "x.length", "1", "x++", "a[0].b"}

\* an assignment by `op` to `left`: as a statement ("stmt"), as the right
\* side of an assignment ("nested"), as the update clause of a for ("for")
AssignCases ==
  [left : TargetTexts \cup OtherLeftTexts, op : {"=", "+="}, place : {"stmt", "nested", "for"}]

AssignSource(case) ==
  CASE case.place = "stmt" -> case.left \o " " \o case.op \o " 1;"
    [] case.place = "nested" -> "z = " \o case.left \o " " \o case.op \o " 1;"
    [] OTHER -> "for (i = 0; i < 3; " \o case.left \o " " \o case.op \o " 1) { }"

\* an update of each left-hand expression of TargetTexts, as a statement
UpdateSources == {left \o "++;" : left \in TargetTexts}

InitAssign == Begin({1}, {AssignSource(case) : case \in AssignCases} \cup UpdateSources, {""})

\* one call, of a statement with an assignment operator after a left-hand
\* expression of each kind
SpecAssign == InitAssign /\ [][Next]_vars

\* statements that parse refuses, one or more for each kind of parse error:
\* a missing expected token, an invalid assignment target, an unsupported
\* assignment operator, an unsupported keyword, a malformed array creation,
\* an unsupported call target, an unexpected token
RefusedStatements ==
  {"x = 1", "x = (1;", "if x", "while (x) }", "x.f(;", "a[1 = 2;", "int 5;", "int[ x;",
   "do x++; until", "for (i = 0; i < 3; i++ {", "x.;", "class A",
   "z = x.y = 1;", "f(x) = 1;", "z = a + b = c;",
   "for (i < 0; i < 3; i++) { }", "for (i++; i < 3; i++) { }",
   "return x;", "x = new int;", "x = new int[];", "x = new int[][3];", "x = new A[1];",
   "x.y(1)(2);", "x = 1 +;", "= 1;"}

\* what stands before the statement refused: nothing, or a line
RefusedPrefixes == {"", "y = 2;\n", "  "}

RefusedPool == {prefix \o st : prefix \in RefusedPrefixes, st \in RefusedStatements}

InitRefused == Begin({1}, RefusedPool, {""})

\* one call, of a source whose last statement parse refuses
SpecRefused == InitRefused /\ [][Next]_vars

\* the most operands of a chain of one logical operator
MaxChain == 3

\* operands of a logical chain: src as written, text as emitted; a variable,
\* a relational comparison and an equality comparison
LogicOperands ==
  {[src |-> "a", text |-> "a", relational |-> FALSE],
   [src |-> "x < 1", text |-> "x < 1", relational |-> TRUE],
   [src |-> "y == 2", text |-> "y = 2", relational |-> TRUE]}

\* a chain of 2 .. MaxChain operands of one operator, written without
\* parentheses (nested to the left in the AST) or with the parentheses that
\* nest it to the right: a && (b && c)
LogicCases ==
  UNION {[op : {"&&", "||"}, right : BOOLEAN, chain : [1..n -> LogicOperands]] : n \in 2..MaxChain}

RECURSIVE RightNested(_, _)
RightNested(operands, op) ==
  IF Len(operands) = 1 THEN operands[1].src
  ELSE operands[1].src \o " " \o op \o " (" \o RightNested(Tail(operands), op) \o ")"

LogicSource(case) ==
  "t = "
  \o (IF case.right THEN RightNested(case.chain, case.op)
      ELSE Join([i \in DOMAIN case.chain |-> case.chain[i].src], " " \o case.op \o " "))
  \o ";"

InitLogic == Begin({1}, {LogicSource(case) : case \in LogicCases}, {"", "sc-01", "sc-03"})

\* one call, of an assignment of a chain of one logical operator
SpecLogic == InitLogic /\ [][Next]_vars

\* the operators of the expressions of the grouping pool: one or two of
\* each precedence level
GroupingOps == {"||", "&&", "==", "<", "+", "-", "*", "/"}

\* an expression of three operands and two operators, grouped to the left
\* or to the right by parentheses
GroupingCases == [first : GroupingOps, second : GroupingOps, right : BOOLEAN]

GroupingText(case) ==
  IF case.right THEN "a " \o case.first \o " (b " \o case.second \o " c)"
  ELSE "(a " \o case.first \o " b) " \o case.second \o " c"

GroupingSource(case) == "t = " \o GroupingText(case) \o ";"

InitGrouping ==
  Begin({1}, {GroupingSource(case) : case \in GroupingCases}, {"", "sc-01", "sc-03"})

\* one call, of an assignment of an expression with two binary operators
SpecGrouping == InitGrouping /\ [][Next]_vars

MaxStep == 3

\* for (v = a; v < N; v += s) and for (v = a; v > N; v -= s), of integer
\* literals a and N and a step s >= 1
StepCases == [a : 0..MaxLit, N : 0..MaxLit, s : 1..MaxStep, down : BOOLEAN]

StepSource(case) ==
  "for (v = " \o ToString(case.a) \o "; v"
  \o (IF case.down THEN " > " ELSE " < ") \o ToString(case.N) \o "; v"
  \o (IF case.down THEN " -= " ELSE " += ") \o ToString(case.s) \o ") { sum = sum + v; }"

InitStep == Begin({1}, {StepSource(case) : case \in StepCases}, {"sc-03", "sc-04"})

\* one call, of a for loop with a literal step, under a style that has the
\* keyword loop
SpecStep == InitStep /\ [][Next]_vars

\* the operators of a compound assignment whose rendering the claims C28
\* speak of
CompoundOps == {"+=", "-=", "*=", "/="}

\* right-hand sides: a name, a literal, and binary expressions of each
\* precedence level
CompoundOperands == {"a", "1", "a + b", "a - b", "a * b", "a / b", "a + b * c"}

CompoundCases == [op : CompoundOps, e : CompoundOperands]

CompoundSource(case) == "x " \o case.op \o " " \o case.e \o ";"

InitCompound ==
  Begin({1}, {CompoundSource(case) : case \in CompoundCases}, {"", "sc-01", "sc-04"})

\* one call, of a compound assignment statement
SpecCompound == InitCompound /\ [][Next]_vars

\* x op e; for each operator of ASSIGNMENT_OPS
OperatorCases == [op : ASSIGNMENT_OPS, e : {"1", "a", "y"}]

OperatorSource(case) == "x " \o case.op \o " " \o case.e \o ";"

InitOperator ==
  Begin({1}, {OperatorSource(case) : case \in OperatorCases}, {"", "sc-01", "sc-03"})

\* one call, of an assignment statement with one of the assignment
\* operators
SpecOperator == InitOperator /\ [][Next]_vars

\* statements with the node kinds the parser places in statement and in
\* expression position: a nested and a for-update AssignmentExpr, a
\* postfix update inside an expression, a Property, an expression
\* statement, next to plain statements
RenderedStatements ==
  {"x = 1;", "x += y;", "i++;", "t = x.length;", "t = a[i];", "z = x = 1;",
   "t = a[i++];", "x + 1;", "t = x.y + 1;", "f(x);", "int n = 2;",
   "for (v = 0; v < 5; v += 2) { s = s + v; }",
   "for (i = 0; i < 5; i++) { s = s + i; }",
   "while (x < 5) { x = x + 1; }",
   "if (a && b) { x = 1; } else { x = 2; }"}

InitRendered == Begin({1}, RenderedStatements, {"", "sc-01", "sc-03"})

\* one call, of one statement, under the default style, sc-01 or sc-03
SpecRendered == InitRendered /\ [][Next]_vars

(***************************************************************************)
(* Properties                                                              *)
(***************************************************************************)
Done(c) == pc[c] = "done"

\* call c has invoked this stage
Invoked(c, stage) == \E i \in 1..Len(trace[c]) : trace[c][i] = stage

\* call c returned { errors: [e] } with e of this stage
ReturnedError(c, stage) ==
  /\ outcome[c].kind = "errors"
  /\ Len(outcome[c].errors) = 1
  /\ outcome[c].errors[1].stage = stage

IsPrefix(a, b) == Len(a) <= Len(b) /\ \A i \in 1..Len(a) : a[i] = b[i]

EndsWith(text, tail) ==
  Len(tail) <= Len(text) /\ Slice(text, Len(text) - Len(tail) + 1, Len(text)) = tail

\* the text before the first line break
FirstLine(text) ==
  LET breaks == {i \in 1..Len(text) : CharAt(text, i) = "\n"}
  IN IF breaks = {} THEN text
     ELSE Slice(text, 1, (CHOOSE i \in breaks : \A j \in breaks : i <= j) - 1)

\* the text after the last line break
LastLine(text) ==
  LET breaks == {i \in 1..Len(text) : CharAt(text, i) = "\n"}
  IN IF breaks = {} THEN text
     ELSE Slice(text, (CHOOSE i \in breaks : \A j \in breaks : i >= j) + 1, Len(text))

\* C1: a call whose source is empty or holds only white space invokes no
\* stage at all, and what it returns is exactly one error, of stage "input".
C1_BlankInputIsAnInputError ==
  \A c \in Calls :
    (pc[c] # "idle" /\ \A i \in 1..Len(source[c]) : IsSpaceChar(CharAt(source[c], i))) =>
      /\ trace[c] = <<>>
      /\ pc[c] \in {"start", "done"}
      /\ Done(c) => ReturnedError(c, "input")

\* a call of a source of white space only has returned
C1_Witness ==
  \E c \in Calls :
    /\ Done(c)
    /\ source[c] # ""
    /\ \A i \in 1..Len(source[c]) : IsSpaceChar(CharAt(source[c], i))
    /\ ReturnedError(c, "input")

\* C2: the stages of a call run in the order normalize, scopeGuard,
\* tokenize, parse, generate, each at most once, and no stage is invoked
\* after a stage that reported an error.
C2_NoStageAfterAnError ==
  \A c \in Calls :
    /\ IsPrefix(trace[c], StageOrder)
    /\ (Invoked(c, "scopeGuard") /\ scopeGuard(normalized[c]) # NoError) =>
         ~Invoked(c, "tokenize")
    /\ (Invoked(c, "tokenize") /\ tokenize(normalized[c]).error # NoError) =>
         ~Invoked(c, "parse")
    /\ (Invoked(c, "parse") /\ parse(tokens[c]).error # NoError) => ~Invoked(c, "generate")

\* C3: a call never ends with an exception: it returns either pseudocode or
\* errors, and when the parser reported an error it returns that one error,
\* of stage "parse".
C3_ConvertReturnsAndNeverThrows ==
  \A c \in Calls :
    Done(c) =>
      /\ outcome[c].kind \in {"pseudocode", "errors"}
      /\ (Invoked(c, "parse") /\ parse(tokens[c]).error # NoError) =>
           outcome[c] = Errors(parse(tokens[c]).error)
      /\ outcome[c].kind = "errors" => Len(outcome[c].errors) = 1

SevenWords == {"interface", "implements", "extends", "throws", "try", "catch", "switch"}

\* the reason of the first rule of the list that matches s
FirstReason(s) ==
  LET hits == {r \in 1..Len(BannedRules) : RuleMatches(BannedRules[r], s)}
  IN BannedRules[CHOOSE r \in hits : \A q \in hits : r <= q].why

\* C5: once the scope guard has run, a normalized source with one of the
\* seven words as a whole word has made the call return one scope error with
\* the reason of the first rule that matches, and tokenize is not invoked;
\* a normalized source that no rule matches has no scope error and the call
\* goes on to tokenize.
C5_BannedWordIsAScopeError ==
  \A c \in Calls :
    Invoked(c, "scopeGuard") =>
      IF \E w \in SevenWords : HasWord(normalized[c], w)
      THEN /\ Done(c)
           /\ outcome[c] = Errors(err("scope", FirstReason(normalized[c]), 1, 1))
           /\ ~Invoked(c, "tokenize")
      ELSE (\A r \in 1..Len(BannedRules) : ~RuleMatches(BannedRules[r], normalized[c])) =>
             /\ ~ReturnedError(c, "scope")
             /\ pc[c] = "tokenize" \/ Invoked(c, "tokenize")

\* a source with the words switch and interface was refused for the interface
C5_Witness ==
  \E c \in Calls :
    /\ Done(c)
    /\ HasWord(normalized[c], "switch")
    /\ HasWord(normalized[c], "interface")
    /\ outcome[c] = Errors(err("scope", "Interfaces are out of scope.", 1, 1))
    /\ ~Invoked(c, "tokenize")

\* the word class occurs twice as a whole word
TwoClassWords(s) ==
  \E i \in 1..Len(s) : \E j \in (i + 1)..Len(s) : WordAt(s, i, "class") /\ WordAt(s, j, "class")

\* C6: a source with the word class twice, on one line or on two, makes the
\* call return a scope error, and neither tokenize nor parse is invoked.
C6_SecondClassIsAScopeError ==
  \A c \in Calls :
    (Invoked(c, "scopeGuard") /\ TwoClassWords(normalized[c])) =>
      /\ Done(c)
      /\ ReturnedError(c, "scope")
      /\ ~Invoked(c, "tokenize")
      /\ ~Invoked(c, "parse")

\* a type name followed by a type argument list: Name<Name>
HasTypeArguments(s) ==
  \E i \in 2..Len(s) : \E j \in (i + 2)..Len(s) :
    /\ CharAt(s, i) = "<"
    /\ CharAt(s, j) = ">"
    /\ IsWordChar(CharAt(s, i - 1))
    /\ \A k \in (i + 1)..(j - 1) : IsWordChar(CharAt(s, k))

\* C7: a source with generic angle-bracket syntax makes the call return a
\* scope error before tokenize is invoked.
C7_GenericsAreAScopeError ==
  \A c \in Calls :
    (Invoked(c, "scopeGuard") /\ HasTypeArguments(normalized[c])) =>
      /\ Done(c)
      /\ ReturnedError(c, "scope")
      /\ ~Invoked(c, "tokenize")

\* the token that follows the last token of the statement without its ';'
\* (the tokens of the head end with eof, so its length is the index sought)
SemiFollower(case) ==
  tokenize(normalize(SemiSource(case))).tokens[Len(tokenize(normalize(SemiHead(case))).tokens)]

\* C8: a call of a source whose only fault is a missing ';' returns one
\* parse error, at the line and column of the token that follows the last
\* token of the statement.
C8_MissingSemicolonIsReportedAtTheNextToken ==
  \A c \in Calls : \A case \in SemiCases :
    (Done(c) /\ source[c] = SemiSource(case)) =>
      /\ ReturnedError(c, "parse")
      /\ outcome[c].errors[1].line = SemiFollower(case).line
      /\ outcome[c].errors[1].column = SemiFollower(case).col

\* "v from a to N-1" and "v from a downto N+1"
BoundedHeader(case) ==
  case.v \o " from " \o case.a
  \o (IF case.down THEN " downto " \o ToString(case.N + 1) ELSE " to " \o ToString(case.N - 1))

\* C9: under every style, and under none, the for loops of ForCases are
\* rendered with the header "v from a to N-1", or "v from a downto N+1".
C9_ForHeaderIsBoundedUnderEveryStyle ==
  \A c \in Calls : \A case \in ForCases :
    (Done(c) /\ source[c] = ForSource(case)) =>
      /\ outcome[c].kind = "pseudocode"
      /\ EndsWith(FirstLine(outcome[c].pseudocode), " " \o BoundedHeader(case))

\* C10: under every style, and under none, the line that closes a do-while
\* loop is the keyword until of the style and the inverted test.
C10_DoWhileEndsWithTheInvertedTest ==
  \A c \in Calls : \A test \in DoTests :
    (Done(c) /\ source[c] = DoSource(test)) =>
      /\ outcome[c].kind = "pseudocode"
      /\ LastLine(outcome[c].pseudocode) =
           resolveStyle(style[c]).keyword.until \o " "
           \o emitExpression(invertCondition(ast[c].children[1].children[2]),
                             resolveStyle(style[c]))


\* the line `text` at depth d
AtDepth(st, d, text) == Repeat(st.indent, d) \o text

RECURSIVE ElseIfLines(_, _, _, _)
\* the else-if heads k .. n at depth d, each followed by its body one level deeper
ElseIfLines(case, k, st, d) ==
  IF k > case.n THEN <<>>
  ELSE <<AtDepth(st, d, st.keyword.elseIf \o " c" \o ToString(k) \o " " \o st.keyword.then),
         AtDepth(st, d + 1, "x = " \o ToString(k))>>
       \o ElseIfLines(case, k + 1, st, d)

\* one if head, n else-if heads, one else when there is a final else, one end if
FlatIfLines(case, st, d) ==
  <<AtDepth(st, d, st.keyword.if \o " c0 " \o st.keyword.then), AtDepth(st, d + 1, "x = 0")>>
  \o ElseIfLines(case, 1, st, d)
  \o (IF case.final
      THEN <<AtDepth(st, d, st.keyword.else), AtDepth(st, d + 1, "x = " \o ToString(case.n + 1))>>
      ELSE <<>>)
  \o <<AtDepth(st, d, st.keyword.endIf)>>

\* the pseudocode of IfSource(case): the flat block, inside the loop when nested
FlatIfText(case, st) ==
  IF case.nested
  THEN Join(<<IF st.keyword.loopWhile # "" THEN st.keyword.loopWhile \o " w"
              ELSE st.keyword.while \o " w " \o st.keyword.do>>
            \o FlatIfLines(case, st, 1)
            \o <<IF st.keyword.loopWhile # "" THEN st.keyword.endLoop ELSE st.keyword.endWhile>>,
            "\n")
  ELSE Join(FlatIfLines(case, st, 0), "\n")

\* C11: an if whose alternate is again an if, n times, is rendered as one
\* if head, n else-if heads, one else line exactly when a final else exists
\* and one end-if line, all at the depth of the outermost if, each body one
\* level deeper.
C11_IfChainIsOneFlatBlock ==
  \A c \in Calls : \A case \in IfCases :
    (Done(c) /\ source[c] = IfSource(case)) =>
      /\ outcome[c].kind = "pseudocode"
      /\ outcome[c].pseudocode = FlatIfText(case, resolveStyle(style[c]))

\* a chain of two else-ifs and a final else, in a loop, was rendered under sc-01
C11_Witness ==
  \E c \in Calls :
    /\ Done(c)
    /\ style[c] = "sc-01"
    /\ source[c] = IfSource([n |-> 2, final |-> TRUE, braces |-> TRUE, nested |-> TRUE])
    /\ outcome[c].pseudocode =
         "WHILE w DO\n  IF c0 THEN\n    x = 0\n  ELSE IF c1 THEN\n    x = 1\n"
         \o "  ELSE IF c2 THEN\n    x = 2\n  ELSE\n    x = 3\n  END IF\nEND WHILE"

\* C12: the output statement of a concatenation chain with a string literal
\* lists the parts of the chain in source order, separated by commas, a
\* part that is a binary expression as one argument in parentheses.
C12_ConcatenationPartsAreTheOutputArguments ==
  \A c \in Calls : \A case \in OutCases :
    (Done(c) /\ source[c] = OutSource(case)) =>
      /\ outcome[c].kind = "pseudocode"
      /\ outcome[c].pseudocode =
           resolveStyle(style[c]).keyword.output \o " "
           \o Join([i \in DOMAIN case.chain |-> case.chain[i].arg], ", ")

\* C13: a declaration or assignment whose right-hand side calls an input
\* method of a line-reading variable is rendered as the one line
\* "<input keyword> <target>", never as a call expression.
C13_InputCallIsAnInputStatement ==
  \A c \in Calls : \A case \in InputCases :
    (Done(c) /\ source[c] = InputSource(case)) =>
      /\ outcome[c].kind = "pseudocode"
      /\ outcome[c].pseudocode = resolveStyle(style[c]).keyword.input \o " x"

\* the methods that the tables of sc-06 name (methodAlias, methodTransform)
TableMethods == {"add", "set", "get", "put", "containsKey", "remove", "size", "addAt"}

\* C14: a method call is rewritten only through the tables of the selected
\* style: under a style without tables, and for a method the tables of the
\* style do not name, it is rendered as "recv.m(args)".
C14_MethodWithoutTableEntryIsGeneric ==
  \A c \in Calls : \A case \in MethodCases :
    (/\ Done(c)
     /\ source[c] = MethodSource(case)
     /\ (style[c] # "sc-06" \/ case.method \notin TableMethods)) =>
      /\ outcome[c].kind = "pseudocode"
      /\ outcome[c].pseudocode = case.recv \o "." \o case.method \o "(" \o case.args \o ")"

\* the columns that a tab takes once normalize has replaced it by spaces
TabWidth == 2

\* index i of text ends a line: "\n", or a "\r" that no "\n" follows
EndsLine(text, i) ==
  CharAt(text, i) = "\n" \/ (CharAt(text, i) = "\r" /\ CharAt(text, i + 1) # "\n")

RECURSIVE PositionsFrom(_, _, _, _, _)
\* the <<line, column>> of the characters i .. Len(text), the character i
\* standing at <<line, col>>; a tab takes `tab` columns
PositionsFrom(text, i, line, col, tab) ==
  IF i > Len(text) THEN <<>>
  ELSE <<(<<line, col>>)>>
       \o (IF EndsLine(text, i) THEN PositionsFrom(text, i + 1, line + 1, 1, tab)
           ELSE PositionsFrom(text, i + 1, line,
                              col + (IF CharAt(text, i) = "\t" THEN tab ELSE 1), tab))

\* the 1-based <<line, column>> of every character of text
Positions(text, tab) == PositionsFrom(text, 1, 1, 1, tab)

RECURSIVE KindsOf(_)
\* the kind of the segment that each character of the source belongs to
KindsOf(segments) ==
  IF Len(segments) = 0 THEN <<>>
  ELSE [i \in 1..Len(Head(segments).text) |-> Head(segments).kind] \o KindsOf(Tail(segments))

\* in `result`, what stands at the position of each character of the
\* source: white space for a character of a comment, the character itself
\* for any other character that is not white space; and the line breaks of
\* the source, those inside block comments included, are those of `result`
PositionsKept(segments, result, tab) ==
  LET text == TextOf(segments)
      kinds == KindsOf(segments)
      at == Positions(text, tab)
      to == Positions(result, 1)
      Standing(i) == {CharAt(result, j) : j \in {k \in 1..Len(result) : to[k] = at[i]}}
  IN /\ \A i \in 1..Len(text) :
          IF CharAt(text, i) \in {"\n", "\r", "\t"} THEN TRUE
          ELSE IF kinds[i] = "comment" THEN Standing(i) = {" "}
          ELSE Standing(i) = {CharAt(text, i)}
     /\ Cardinality({i \in 1..Len(text) : EndsLine(text, i)})
          = Cardinality({j \in 1..Len(result) : EndsLine(result, j)})

SegmentStarts(segments) ==
  [n \in 1..Len(segments) |-> Len(TextOf(SubSeq(segments, 1, n - 1))) + 1]

\* the literal that segment n of the source holds stands in `result`,
\* character for character, from the position of its opening quote on
LiteralKept(segments, n, result) ==
  LET text == TextOf(segments)
      at == Positions(text, TabWidth)
      to == Positions(result, 1)
      start == SegmentStarts(segments)[n]
      literal == segments[n].text
  IN \E j \in 1..Len(result) :
       /\ to[j] = at[start]
       /\ Slice(result, j, j + Len(literal) - 1) = literal

\* C16: normalize leaves every string and character literal unchanged,
\* character for character: comment delimiters inside it are not blanked,
\* escaped quotes and backslashes do not end it, and no other character of
\* it is altered.
C16_LiteralsAreLeftUnchanged ==
  \A c \in Calls : \A case \in PieceCases :
    (pc[c] = "scope" /\ source[c] = PieceSource(case)) =>
      \A n \in 1..Len(SegmentsOf(case)) :
        SegmentsOf(case)[n].kind = "string" => LiteralKept(SegmentsOf(case), n, normalized[c])

\* the index in `segments` of the first literal that is not closed, 0 if none
OpenAt(segments) ==
  LET open == {n \in 1..Len(segments) : segments[n].kind = "open"}
  IN IF open = {} THEN 0 ELSE CHOOSE n \in open : \A m \in open : n <= m

\* the <<line, column>> of the first character of segment n in the text
SegmentPosition(segments, n) ==
  Positions(TextOf(segments) \o " ", 1)[SegmentStarts(segments)[n]]

\* C17: when a string literal is not closed at the end of the input or before
\* the end of its line, tokenize returns one error of stage "tokenization"
\* whose line and column are those of the opening quote of the literal, and
\* no tokens.
C17_UnterminatedStringIsReportedAtItsOpeningQuote ==
  \A c \in Calls : \A segments \in TokenCases :
    (Invoked(c, "tokenize") /\ source[c] = TextOf(segments) /\ OpenAt(segments) # 0) =>
      /\ Done(c)
      /\ tokens[c] = <<>>
      /\ outcome[c] = Errors(err("tokenization", "Unterminated string literal",
                                 SegmentPosition(segments, OpenAt(segments))[1],
                                 SegmentPosition(segments, OpenAt(segments))[2]))

\* `part` occurs in `text`
Occurs(part, text) ==
  \E i \in 1..(Len(text) - Len(part) + 1) : Slice(text, i, i + Len(part) - 1) = part

\* what is written between the quotes of a literal
Inside(literal) == Slice(literal, 2, Len(literal) - 1)

\* C18: the text of a string literal, backslash escapes included, stands in
\* the pseudocode between two quotes exactly as it is written between the
\* quotes in the source: no character of it is added, removed or doubled.
C18_LiteralTextReachesThePseudocodeAsWritten ==
  \A c \in Calls : \A segments \in TokenCases :
    (Done(c) /\ source[c] = TextOf(segments) /\ outcome[c].kind = "pseudocode") =>
      \A n \in 1..Len(segments) :
        segments[n].kind = "string" =>
          \E q \in {"\"", "'"} : Occurs(q \o Inside(segments[n].text) \o q, outcome[c].pseudocode)

RECURSIVE TokensFrom(_, _)
\* the tokens that the segments n .. Len(segments) are, each with the line
\* and column of its first character
TokensFrom(segments, n) ==
  IF n > Len(segments) THEN <<>>
  ELSE (IF segments[n].kind = "space" THEN <<>>
        ELSE <<Token(segments[n].kind,
                     IF segments[n].kind = "string" THEN Inside(segments[n].text)
                     ELSE segments[n].text,
                     SegmentPosition(segments, n)[1], SegmentPosition(segments, n)[2])>>)
       \o TokensFrom(segments, n + 1)

\* the position just past the last character of the text
EndPosition(text) == Positions(text \o " ", 1)[Len(text) + 1]

\* <<l1, c1>> is before <<l2, c2>> in the text
Before(p, q) == p[1] < q[1] \/ (p[1] = q[1] /\ p[2] < q[2])

\* C19: every token of the stream carries the line and column of its own
\* first character in the normalized text, the end-of-stream token those of
\* the position just past the last character; the positions of the tokens
\* increase strictly; the end-of-stream token is the last token and the only
\* one of its type.
C19_TokensCarryThePositionOfTheirFirstCharacter ==
  \A c \in Calls : \A segments \in TokenCases :
    (Invoked(c, "tokenize") /\ normalized[c] = TextOf(segments) /\ OpenAt(segments) = 0) =>
      /\ tokens[c] = TokensFrom(segments, 1)
                       \o <<Token("eof", "", EndPosition(normalized[c])[1],
                                  EndPosition(normalized[c])[2])>>
      /\ \A i \in 1..(Len(tokens[c]) - 1) :
           Before(<<tokens[c][i].line, tokens[c][i].col>>,
                  <<tokens[c][i + 1].line, tokens[c][i + 1].col>>)
      /\ {i \in 1..Len(tokens[c]) : tokens[c][i].type = "eof"} = {Len(tokens[c])}

\* the cursor after a parsing method that returned: not before the cursor p
\* at which the method was entered, and not past the end-of-stream token
CursorKept(t, p, r) == r.ok => (p <= r.pos /\ r.pos <= Len(t))

\* C20: during a parse the cursor never decreases and never moves past the
\* end-of-stream token: a match consumes exactly one token, and every
\* parsing method and every skipping loop of parseProgram, entered at any
\* token of the stream, returns with the cursor where it was or further on,
\* at the end-of-stream token at most.  (The lookahead predicates are
\* operators of the tokens and the cursor that return a boolean and no cursor.)
C20_CursorNeverRewindsNorPassesTheEnd ==
  \A c \in Calls :
    pc[c] = "parse" =>
      /\ CursorKept(tokens[c], 1, parseProgram(tokens[c]))
      /\ \A p \in 1..Len(tokens[c]) :
           /\ CursorKept(tokens[c], p, parseStatement(tokens[c], p))
           /\ CursorKept(tokens[c], p, parseExpression(tokens[c], p))
           /\ CursorKept(tokens[c], p, parseBlock(tokens[c], p))
           /\ CursorKept(tokens[c], p, parseMain(tokens[c], p))
           /\ CursorKept(tokens[c], p, SkipClassHeader(tokens[c], p))
           /\ p <= SkipModifiers(tokens[c], p) /\ SkipModifiers(tokens[c], p) <= Len(tokens[c])
           /\ p <= SkipSignature(tokens[c], p) /\ SkipSignature(tokens[c], p) <= Len(tokens[c])
           /\ p <= SkipBraces(tokens[c], p) /\ SkipBraces(tokens[c], p) <= Len(tokens[c])
           /\ p < Len(tokens[c]) =>
                expect(tokens[c], p, tokens[c][p].type, tokens[c][p].value, "").pos = p + 1

\* the parse of a class with a main method, whose body holds an assignment
\* to an array element and an update, is about to start; it will end with
\* the cursor at the end-of-stream token, the closing braces skipped
C20_Witness ==
  \E c \in Calls :
    /\ pc[c] = "parse"
    /\ source[c] = "public class A { public static void main(String[] args) { a[i + 1] = x; i++; } }"
    /\ parseProgram(tokens[c]).ok
    /\ parseProgram(tokens[c]).pos = Len(tokens[c])
    /\ \E p \in 1..Len(tokens[c]) : isAssignmentAhead(tokens[c], p)
    /\ \E p \in 1..Len(tokens[c]) : isUpdateStatementAhead(tokens[c], p)

RECURSIVE TargetsAllowed(_)
\* in the tree of `node`, the target of every Assignment, AssignmentExpr and
\* Update node is an Identifier or an ArrayAccess node
TargetsAllowed(node) ==
  /\ node.type \in {"Assignment", "AssignmentExpr", "Update"} =>
       node.sub[1].type \in {"Identifier", "ArrayAccess"}
  /\ \A i \in 1..Len(node.sub) : TargetsAllowed(node.sub[i])
  /\ \A i \in 1..Len(node.children) : TargetsAllowed(node.children[i])

\* a node of one of the three types occurs in the tree of `node`
RECURSIVE HasTarget(_)
HasTarget(node) ==
  \/ node.type \in {"Assignment", "AssignmentExpr", "Update"}
  \/ \E i \in 1..Len(node.sub) : HasTarget(node.sub[i])
  \/ \E i \in 1..Len(node.children) : HasTarget(node.children[i])

\* C21 as stated: in every AST that parse returns the target of every
\* Assignment, AssignmentExpr and Update node is an Identifier or an
\* ArrayAccess, and an assignment operator that follows any other left-hand
\* expression makes parse fail with the error "Invalid assignment target".
C21_OtherTargetIsAnInvalidAssignmentTarget ==
  \A c \in Calls :
    Invoked(c, "parse") =>
      /\ TargetsAllowed(ast[c])
      /\ \A case \in AssignCases :
           (source[c] = AssignSource(case) /\ case.left \in OtherLeftTexts) =>
             /\ ast[c] = Undefined
             /\ parse(tokens[c]).error.message = "Invalid assignment target"

\* C21, amended: the same, the failure being a parse error of any message.
C21_OtherTargetIsAParseError ==
  \A c \in Calls :
    Invoked(c, "parse") =>
      /\ TargetsAllowed(ast[c])
      /\ \A case \in AssignCases :
           (source[c] = AssignSource(case) /\ case.left \in OtherLeftTexts) =>
             /\ ast[c] = Undefined
             /\ parse(tokens[c]).error.stage = "parse"

\* parse has refused an assignment to a property as the right side of an
\* assignment, with "Invalid assignment target"
C21_Witness ==
  \E c \in Calls :
    /\ Invoked(c, "parse")
    /\ source[c] = "z = x.y = 1;"
    /\ ast[c] = Undefined
    /\ parse(tokens[c]).error.message = "Invalid assignment target"

\* C22: a parse error carries the line and column of the token that the
\* cursor stands on when the error is raised (the first token not yet
\* consumed), never those of a token consumed earlier.
C22_ParseErrorIsAtTheCurrentToken ==
  \A c \in Calls :
    (Invoked(c, "parse") /\ ~parseProgram(tokens[c]).ok) =>
      /\ parseProgram(tokens[c]).error.line = TokenAt(tokens[c], parseProgram(tokens[c]).pos).line
      /\ parseProgram(tokens[c]).error.column = TokenAt(tokens[c], parseProgram(tokens[c]).pos).col

\* C23: a chain of one logical operator, however it is nested, is emitted as
\* one flat list of its operands joined by the AND / OR word of the style,
\* and an operand that is a relational or equality comparison stands in
\* parentheses exactly when wrapRelationalInLogical is true in the style,
\* whatever the operator and the length of the chain.
C23_LogicalChainIsFlatAndWrappedByTheToggle ==
  \A c \in Calls : \A case \in LogicCases :
    (Done(c) /\ source[c] = LogicSource(case)) =>
      /\ outcome[c].kind = "pseudocode"
      /\ outcome[c].pseudocode =
           "t = "
           \o Join([i \in DOMAIN case.chain |->
                      Parens(case.chain[i].relational
                               /\ resolveStyle(style[c]).wrapRelationalInLogical,
                             case.chain[i].text)],
                   " " \o pseudoOperator(case.op, resolveStyle(style[c])) \o " ")

C25_AcceptedProgramIsConsumedToTheEnd ==
  \A c \in Calls :
    (Invoked(c, "parse") /\ parseProgram(tokens[c]).ok) =>
      parseProgram(tokens[c]).pos = Len(tokens[c])

RECURSIVE ReplaceFrom(_, _, _, _)
\* text from index i on, with every occurrence of `from` replaced by `to`
ReplaceFrom(text, i, from, to) ==
  IF i > Len(text) THEN ""
  ELSE IF Slice(text, i, i + Len(from) - 1) = from
       THEN to \o ReplaceFrom(text, i + Len(from), from, to)
       ELSE CharAt(text, i) \o ReplaceFrom(text, i + 1, from, to)

\* the emitted expression with the words of the style written back as the
\* operators that they stand for
OperatorsBack(text, st) ==
  ReplaceFrom(ReplaceFrom(ReplaceFrom(text, 1, " " \o st.and \o " ", " && "),
                          1, " " \o st.or \o " ", " || "),
              1, " = ", " == ")

\* the emitted expression read back with the parser's own precedence and
\* associativity
ReadBack(text, st) == parseExpression(tokenize(OperatorsBack(text, st)).tokens, 1)

\* C26: the text emitted for an expression of Binary nodes, read back with
\* the parser's precedence and left-associativity, groups the operands as
\* the AST does: parentheses stand wherever their absence would change the
\* grouping.
C26_EmittedExpressionKeepsTheGrouping ==
  \A c \in Calls : \A case \in GroupingCases :
    (Done(c) /\ source[c] = GroupingSource(case)) =>
      /\ outcome[c].kind = "pseudocode"
      /\ Slice(outcome[c].pseudocode, 1, 4) = "t = "
      /\ ReadBack(Slice(outcome[c].pseudocode, 5, Len(outcome[c].pseudocode)),
                  resolveStyle(style[c])).node
           = ast[c].children[1].children[1]

\* the values v takes in the source loop: a, a + s, ... while v < N, or
\* a, a - s, ... while v > N
SourceValues(case) ==
  {v \in (0 - MaxStep)..(MaxLit + MaxStep) :
     \E k \in 0..MaxLit :
       /\ v = (IF case.down THEN case.a - k * case.s ELSE case.a + k * case.s)
       /\ IF case.down THEN v > case.N ELSE v < case.N}

\* the values v takes in "v from a to end step s", or "v from a downto end
\* step s", with both ends included
HeaderValues(case, end) ==
  {v \in (0 - MaxStep)..(MaxLit + MaxStep) :
     \E k \in 0..MaxLit :
       /\ v = (IF case.down THEN case.a - k * case.s ELSE case.a + k * case.s)
       /\ IF case.down THEN v >= end ELSE v <= end}

\* the headers of the loop of a case whose range, both ends included, holds
\* the values of the source loop
FaithfulHeaders(case, st) ==
  {st.keyword.loop \o " v from " \o ToString(case.a)
   \o (IF case.down THEN " downto " ELSE " to ") \o ToString(end) \o stepText :
     end \in {e \in (0 - MaxStep - 1)..(MaxLit + MaxStep + 1) :
                HeaderValues(case, e) = SourceValues(case)},
     stepText \in {" step " \o ToString(case.s)} \cup (IF case.s = 1 THEN {""} ELSE {})}

\* C27: the header rendered for a for loop with literal bounds and a literal
\* step s >= 1, read as a range with both ends included, gives v the values
\* of the source loop.
C27_SteppedHeaderTakesTheValuesOfTheSourceLoop ==
  \A c \in Calls : \A case \in StepCases :
    (Done(c) /\ source[c] = StepSource(case)) =>
      /\ outcome[c].kind = "pseudocode"
      /\ FirstLine(outcome[c].pseudocode) \in FaithfulHeaders(case, resolveStyle(style[c]))

\* C28: a compound assignment x op= e is rendered as "x = x op e" whose
\* right-hand side, read back with the parser's precedence and
\* associativity, is the operation op of x and the whole of e.
C28_CompoundAssignmentAppliesTheOperatorToTheWholeOperand ==
  \A c \in Calls : \A case \in CompoundCases :
    (Done(c) /\ source[c] = CompoundSource(case)) =>
      /\ outcome[c].kind = "pseudocode"
      /\ Slice(outcome[c].pseudocode, 1, 4) = "x = "
      /\ ReadBack(Slice(outcome[c].pseudocode, 5, Len(outcome[c].pseudocode)),
                  resolveStyle(style[c])).node
           = Binary(CharAt(case.op, 1), Identifier("x"), ast[c].children[1].children[1])

\* the rendering "x = e" of x = e and "x = x <op> e" of x op= e
OperatorLine(case, st) ==
  IF case.op = "=" THEN "x = " \o case.e
  ELSE "x = x " \o pseudoOperator(CharAt(case.op, 1), st) \o " " \o case.e

\* C29: for every operator of ASSIGNMENT_OPS the statement x op e; is
\* tokenized with the operator as one token, parsed as an Assignment with
\* that operator and converted, without error, to "x = x <op> e".
C29_EveryAssignmentOperatorIsAcceptedEndToEnd ==
  \A c \in Calls : \A case \in OperatorCases :
    (Done(c) /\ source[c] = OperatorSource(case)) =>
      /\ Len(tokens[c]) >= 2
      /\ tokens[c][2].type = "operator"
      /\ tokens[c][2].value = case.op
      /\ ast[c].type = "Program"
      /\ Len(ast[c].children) = 1
      /\ ast[c].children[1].type = "Assignment"
      /\ ast[c].children[1].op = case.op
      /\ outcome[c].kind = "pseudocode"
      /\ outcome[c].pseudocode = OperatorLine(case, resolveStyle(style[c]))

\* C30: the pseudocode of an accepted source holds neither "<?>" nor an
\* "unsupported node" line, under every style.
C30_EveryNodeOfAnAcceptedSourceIsRendered ==
  \A c \in Calls :
    (Done(c) /\ outcome[c].kind = "pseudocode") =>
      /\ ~Occurs("<?>", outcome[c].pseudocode)
      /\ ~Occurs("unsupported node", outcome[c].pseudocode)

====
